---- MODULE Spec2Model ----
(***************************************************************************)
(* Stream-bridging hubs of tanstack-robot-space.                           *)
(*                                                                         *)
(* One hub of the kind chosen in Init (robotStatusHub, robotStateHub,      *)
(* lidarHub, mapHub, floorTopologyHub) is modelled with its module-level   *)
(* variables, its timers (remaining milliseconds) and its upstream stream. *)
(* The per-client status SSE route (openUiStatusStream) is modelled by     *)
(* the kind "route".                                                       *)
(***************************************************************************)
EXTENDS Integers, Sequences, FiniteSets, TLC

VARIABLES
    kind,                 \* which hub module this instance is
    started,              \* let started
    latest,               \* let latestMap / latestScan / latestTopology / ...
    subscribers,          \* const subscribers = new Set(): insertion order
    staleTimer,           \* remaining ms of the pending stale timer, or Off
    reconnectTimer,       \* remaining ms of the pending reconnect timer, or Off
    noDataTimer,          \* floorTopologyHub: the 5 s diagnostic timer is pending
    activeCall,           \* let activeCall (non-null)
    callListening,        \* the hub's data/error/end listeners are on the stream
    openStreams,          \* upstream streams opened and not yet terminated
    reconnectAttempt,     \* let reconnectAttempt
    gotDataSinceConnect,  \* let gotDataSinceConnect
    fatalError,           \* floorTopologyHub: fatalError !== null
    routeStreams,         \* status SSE route: clients with an open upstream stream
    ev,                   \* the handler that ran in the last step
    calls,                \* listener invocations of the last step:
                          \* <<listener, value, getSnapshot() inside the callback>>
    uncaught,             \* the last handler ended by an exception it did not catch
    opened,               \* the last step tried to open an upstream stream
    lastDelay,            \* delay passed to the last setTimeout of scheduleReconnect
    failures,             \* consecutive failures since the last received data frame
    sincePublish,         \* ms since the last valid publish (capped), or Off
    norm,                 \* a normalizer call: its name, its argument, its result
    reentry,              \* <<d, x>>: in the last handler listener d, when invoked,
                          \* called the detach function of listener x; or NoReentry
    reconnectTimers,      \* reconnect callbacks pending in the event loop:
                          \* setTimeout calls neither expired nor cleared
    retryLog,             \* createRetryLogger: lastLoggedAt, nextWindowMs,
                          \* suppressed, windowStart
    logNow,               \* Date.now() as the retry logger reads it
    logOut,               \* the last call on the retry logger and the line it
                          \* wrote to stderr, if any
    statusRoute,          \* one GET /api/status/stream: the closure variables
                          \* of the handler and of openUiStatusStream, the
                          \* response stream, the events enqueued for the client
    grpcLog,              \* globalThis.__tanstackGrpcRetryLogger and the const
                          \* retryLog of lidarHub and floorTopologyHub
    logHist,              \* lines written since creation or the last success
                          \* (capped at 2); failures suppressed since the last line
    modelCache,           \* robotModelCache.ts: let inflight, the operations
                          \* started, the waiting requests, the cache directory
    sse,                  \* per response stream of a hub-backed SSE route: the
                          \* closure variables of its GET handler, the state of
                          \* its controller, the events enqueued in the last step
    markedSuccess,        \* the handler of the last step called
                          \* retryLog.markSuccess()
    delivered,            \* the valid frame, normalized, that the upstream stream
                          \* delivered to the data handler in the last step, or
                          \* Null
    modelClient,          \* robotModelClient.ts: let cached, let inflight, the
                          \* operations started, what each call returned
    oldListening,         \* the hub's listeners are still on the stream it
                          \* dropped last (removeAllListeners was not called)
    lastSeen              \* per listener: what its subscription received last
                          \* ("snap", "null"), "owed" if that was a snapshot and a
                          \* stale expiry or a disconnect followed, "none" if
                          \* nothing or not subscribed

vars == <<kind, started, latest, subscribers, staleTimer, reconnectTimer,
          noDataTimer, activeCall, callListening, openStreams, reconnectAttempt,
          gotDataSinceConnect, fatalError, routeStreams, ev, calls,
          uncaught, opened, lastDelay, failures, sincePublish, norm,
          reentry, lastSeen, reconnectTimers, oldListening, delivered,
          markedSuccess, sse, retryLog, logNow, logOut, logHist, grpcLog,
          modelCache, modelClient, statusRoute>>

\* The module-level state of the libraries beside the hubs.
libVars == <<retryLog, logNow, logOut, logHist, grpcLog, modelCache, modelClient,
             statusRoute>>

hubVars == <<started, latest, subscribers, staleTimer, reconnectTimer,
             noDataTimer, activeCall, callListening, openStreams,
             reconnectAttempt, gotDataSinceConnect, fatalError>>

(***************************************************************************)
(* Bounds of the model.                                                    *)
(***************************************************************************)
NumListeners == 2
MaxAttempt == 12
MaxPolylines == 1
MaxRouteClients == 2
StepMs == 3500

Listeners == 1..NumListeners
RouteClients == 1..MaxRouteClients

(***************************************************************************)
(* Program constants.                                                      *)
(***************************************************************************)
DEFAULT_GRPC_RECONNECT_MS == 2000
DEFAULT_STATUS_STALE_MS == 7000
DEFAULT_BRIDGE_STALE_MS == 7000
TIER2_DELAY_MS == 60000
TIER3_DELAY_MS == 300000
ONE_MIN_MS == 60000
FIVE_MIN_MS == 300000
EXPECTED_POLYLINE_FRAME_ID == "base_footprint"

Off == -1

\* "statusOld" is the robotStatusHub whose startGrpcLoop has no try/catch.
HubKinds == {"status", "statusOld", "state", "lidar", "map", "topology"}
Kinds == HubKinds \cup {"route"}

grpcReconnectMs == DEFAULT_GRPC_RECONNECT_MS

\* robotStateHub declares no staleTimer and no scheduleStaleClear.
HasStaleTimer(k) == k \in {"status", "statusOld", "lidar", "map", "topology"}

\* statusStaleMs / lidarStaleMs / mapStaleMs / topologyStaleMs (defaults).
StaleMs(k) ==
    IF k \in {"status", "statusOld"} THEN DEFAULT_STATUS_STALE_MS
    ELSE DEFAULT_BRIDGE_STALE_MS

\* startGrpcLoop wraps the opening of the stream in try/catch.
CatchesOpenFailure(k) == k # "statusOld"

\* onDisconnect calls clearAsStale() in lidarHub, mapHub and floorTopologyHub only.
ClearsOnDisconnect(k) == k \in {"lidar", "map", "topology"}

\* lidarHub and floorTopologyHub report to the logger of getGrpcRetryLogger().
UsesRetryLogger(k) == k \in {"lidar", "topology"}

\* robotStatusHub has no reconnectAttempt / gotDataSinceConnect.
HasAttemptCounter(k) == k \in {"state", "lidar", "map", "topology"}

(***************************************************************************)
(* JavaScript values of the raw records, as far as the normalizers look.   *)
(***************************************************************************)
Undef == [t |-> "undefined", n |-> 0, s |-> ""]
Nul == [t |-> "null", n |-> 0, s |-> ""]
NaNv == [t |-> "nan", n |-> 0, s |-> ""]
Infv == [t |-> "infinity", n |-> 0, s |-> ""]
Num(n) == [t |-> "number", n |-> n, s |-> ""]
Str(s) == [t |-> "string", n |-> 0, s |-> s]
Bool(b) == [t |-> "boolean", n |-> IF b THEN 1 ELSE 0, s |-> ""]
\* an array of len elements, none of them numeric
Arr(len) == [t |-> "array", n |-> len, s |-> ""]

\* The decimal literals among the strings of the model.
DecimalValue == ("0" :> 0) @@ ("5" :> 5) @@ ("1000" :> 1000)

\* Number(s) of a string: the empty string is 0, a decimal literal is its
\* value, anything else is NaN.
StringToNumber(s) ==
    IF s = "" THEN Num(0)
    ELSE IF s \in DOMAIN DecimalValue THEN Num(DecimalValue[s])
    ELSE NaNv

\* Number(value)
ToNumber(v) ==
    CASE v.t = "undefined" -> NaNv
      [] v.t = "null" -> Num(0)
      [] v.t = "boolean" -> Num(v.n)
      [] v.t = "number" -> v
      [] v.t = "nan" -> NaNv
      [] v.t = "infinity" -> Infv
      [] v.t = "string" -> StringToNumber(v.s)
      [] v.t = "array" -> IF v.n = 0 THEN Num(0) ELSE NaNv

\* value == null
IsNullish(v) == v.t \in {"undefined", "null"}

\* Number.isFinite(n)
IsFinite(v) == v.t = "number"

\* const n = Number(value); Number.isFinite(n) ? n : null  (no null check)
NumberIfFinite(v) == IF IsFinite(ToNumber(v)) THEN ToNumber(v) ELSE Nul

\* numberRequired(value), and numberOrNull(value) of floorTopologyHub
numberRequired(v) == IF IsNullish(v) THEN Nul ELSE NumberIfFinite(v)

\* numberOrDefault(value, defaultValue) that gives null for an omitted value.
numberOrDefaultAsRequired(v, defaultValue) ==
    IF IsNullish(v) THEN Nul ELSE NumberIfFinite(v)

\* numberOrDefault(value, defaultValue)
numberOrDefault(v, defaultValue) ==
    IF IsNullish(v) THEN Num(defaultValue) ELSE NumberIfFinite(v)

\* typeof x === 'string' ? x : ''
stringOrEmpty(v) == IF v.t = "string" THEN v.s ELSE ""


\* normalizeSeq(seqRaw): string form; absent -> '0'.
normalizeSeq(v) ==
    CASE v.t = "string" -> v.s
      [] v.t = "number" -> ToString(v.n)
      [] v.t = "nan" -> "NaN"
      [] v.t = "infinity" -> "Infinity"
      [] v.t = "boolean" -> IF v.n = 1 THEN "true" ELSE "false"
      [] v.t = "array" -> IF v.n = 0 THEN "" ELSE ","
      [] IsNullish(v) -> "0"

(***************************************************************************)
(* Raw frames.  rest abstracts the topic's other required fields           *)
(* (cpu_percent, pose, ranges, png, ...): "ok" when they all validate.     *)
(***************************************************************************)
TsVals == {Undef, Num(1000)}
SeqVals == {Num(5)}
IdVals == {Num(1), Num(-1)}
FrameIdVals == {Str(EXPECTED_POLYLINE_FRAME_ID), Str("map")}

RawPolylines == [id : IdVals, frame_id : FrameIdVals]

SeqsUpTo(S, n) == UNION {[1..m -> S] : m \in 0..n}

RawFrames(k) ==
    [timestamp_unix_ms : TsVals, seq : SeqVals,
     rest : IF k = "topology" THEN {"ok"} ELSE {"ok", "bad"},
     polylines : IF k = "topology" THEN SeqsUpTo(RawPolylines, MaxPolylines)
                 ELSE {<<>>}]

Blank(tag) == [tag |-> tag, timestampUnixMs |-> 0, seq |-> "", polylines |-> <<>>]
Null == Blank("null")
Rejected == Blank("rejected")
Thrown == Blank("thrown")

\* normalizePolyline(raw): "drop" (return null), "throw", or the polyline.
normalizePolyline(p) ==
    LET id == IF p.id.t \in {"number", "nan", "infinity"} THEN p.id
              ELSE ToNumber(IF IsNullish(p.id) THEN Num(0) ELSE p.id)
        frameId == stringOrEmpty(p.frame_id)
    IN  IF id.t # "number" \/ id.n < 0 THEN "drop"
        ELSE IF frameId # EXPECTED_POLYLINE_FRAME_ID THEN "throw"
        ELSE "keep"

\* normalizePoint3(raw): the point, or Nul (return null); z is handled like x
\* and y.
normalizePoint3(pt) ==
    LET x == numberRequired(pt.x)
        y == numberRequired(pt.y)
    IN  IF ~IsFinite(x) \/ ~IsFinite(y) THEN Nul ELSE [x |-> x, y |-> y]

\* The for-loop of normalizePolyline over the points: a point that does not
\* normalize is skipped.
RECURSIVE keptPoints(_)
keptPoints(pts) ==
    IF pts = <<>> THEN <<>>
    ELSE IF normalizePoint3(Head(pts)) = Nul THEN keptPoints(Tail(pts))
         ELSE <<normalizePoint3(Head(pts))>> \o keptPoints(Tail(pts))

\* Array.isArray(p?.points) ? p.points : []  (a raw polyline without the key
\* has no points).
pointsRaw(p) == IF "points" \in DOMAIN p THEN p.points ELSE <<>>

\* The for-loop of normalizeFloorTopologyUpdate: the first polyline that throws
\* aborts the loop; dropped polylines are skipped; the others are kept in order.
polylinesThrow(ps) == \E i \in 1..Len(ps) : normalizePolyline(ps[i]) = "throw"

RECURSIVE keptPolylines(_)
keptPolylines(ps) ==
    IF ps = <<>> THEN <<>>
    ELSE IF normalizePolyline(Head(ps)) = "keep"
         THEN <<[id |-> Head(ps).id.n, points |-> keptPoints(pointsRaw(Head(ps)))]>>
                  \o keptPolylines(Tail(ps))
         ELSE keptPolylines(Tail(ps))

Snapshot(ts, seq, polys) ==
    [tag |-> "snap", timestampUnixMs |-> ts, seq |-> seq, polylines |-> polys]

\* normalizeFloorTopologyUpdate(raw)
normalizeFloorTopologyUpdate(raw) ==
    LET ts == numberRequired(raw.timestamp_unix_ms)
    IN  IF ts.t # "number" THEN Rejected
        ELSE IF polylinesThrow(raw.polylines) THEN Thrown
        ELSE Snapshot(ts.n, normalizeSeq(raw.seq), keptPolylines(raw.polylines))

\* normalizeStatusUpdate / normalizeRobotStateUpdate / normalizeLidarUpdate /
\* normalizeMapUpdate: reject on an invalid timestamp or other required field.
normalizeOther(raw) ==
    LET ts == IF kind \in {"status", "statusOld", "lidar"}
              THEN NumberIfFinite(raw.timestamp_unix_ms)
              ELSE numberRequired(raw.timestamp_unix_ms)
    IN  IF ts.t # "number" THEN Rejected
        ELSE IF raw.rest # "ok" THEN Rejected
        ELSE Snapshot(ts.n, normalizeSeq(raw.seq), <<>>)

normalize(k, raw) ==
    IF k = "topology" THEN normalizeFloorTopologyUpdate(raw) ELSE normalizeOther(raw)

\* Some polyline of the raw frame declares a frame_id other than base_footprint.
HasWrongFrame(raw) ==
    \E i \in 1..Len(raw.polylines) :
        stringOrEmpty(raw.polylines[i].frame_id) # EXPECTED_POLYLINE_FRAME_ID

(***************************************************************************)
(* The normalizers field by field.  A field that is handled like another   *)
(* one of the same record is left out: y, z, qx, qy, qz like x; width and  *)
(* height like resolution_m_per_px; range_min and range_max like           *)
(* angle_increment.                                                        *)
(***************************************************************************)
\* The ids of rate metrics and the joint names the model tells apart.
RateIds == {"odom", "scan"}
JointNames == {"left"}

\* Array.isArray(update.rates) ? update.rates : []
ratesRaw(update) == IF "rates" \in DOMAIN update THEN update.rates ELSE <<>>

\* The for-loop of normalizeStatusUpdate over the rate metrics: rates[id] of
\* every id, Undef when the object has no such key.  A later metric of the
\* same id overwrites an earlier one.
RECURSIVE rates(_)
rates(metrics) ==
    IF metrics = <<>> THEN [id \in RateIds |-> Undef]
    ELSE LET n == Len(metrics)
             metric == metrics[n]
             out == rates(SubSeq(metrics, 1, n - 1))
             id == IF metric.id.t = "string" THEN metric.id.s ELSE ""
             hz == ToNumber(metric.hz)
             targetHz == ToNumber(metric.target_hz)
         IN  IF id = "" THEN out
             ELSE IF ~IsFinite(hz) THEN out
             ELSE [out EXCEPT ![id] = [hz |-> hz,
                                       targetHz |-> IF IsFinite(targetHz)
                                                    THEN targetHz ELSE Undef]]

\* normalizeStatusUpdate(update) of robotStatusHub
normalizeStatusUpdate(update) ==
    LET timestampUnixMs == NumberIfFinite(update.timestamp_unix_ms)
        cpuPercent == NumberIfFinite(update.cpu_percent)
        voltageV == NumberIfFinite(update.voltage_v)
    IN  IF ~IsFinite(timestampUnixMs) THEN Rejected
        ELSE IF ~IsFinite(cpuPercent) THEN Rejected
        ELSE [tag |-> "snap", timestampUnixMs |-> timestampUnixMs,
              seq |-> normalizeSeq(update.seq), cpuPercent |-> cpuPercent,
              rates |-> rates(ratesRaw(update)),
              voltageV |-> IF IsFinite(voltageV) THEN voltageV ELSE Undef]

\* normalizeLidarUpdate(raw) of lidarHub
normalizeLidarUpdate(raw) ==
    LET timestampUnixMs == NumberIfFinite(raw.timestamp_unix_ms)
        angleMin == IF IsNullish(raw.angle_min) THEN Num(0)
                    ELSE ToNumber(raw.angle_min)
        angleIncrement == NumberIfFinite(raw.angle_increment)
    IN  IF ~IsFinite(timestampUnixMs) THEN Rejected
        ELSE IF ~IsFinite(angleMin) THEN Rejected
        ELSE IF ~IsFinite(angleIncrement) THEN Rejected
        ELSE IF raw.ranges.t # "array" THEN Rejected
        ELSE [tag |-> "snap", timestampUnixMs |-> timestampUnixMs,
              seq |-> normalizeSeq(raw.seq), angleMin |-> angleMin,
              angleIncrement |-> angleIncrement]

\* normalizePose3D(raw) of robotStateHub and mapHub; an absent pose reads
\* every p?.field as undefined.
normalizePose3D(p) ==
    LET x == numberOrDefault(p.x, 0)
        qw == numberOrDefault(p.qw, 1)
    IN  IF ~IsFinite(x) \/ ~IsFinite(qw) THEN Rejected
        ELSE [tag |-> "pose", x |-> x, qw |-> qw]

\* Array.isArray(raw.wheel_angles) ? raw.wheel_angles : []
wheelAnglesRaw(raw) ==
    IF "wheel_angles" \in DOMAIN raw THEN raw.wheel_angles ELSE <<>>

\* The for-loop of normalizeRobotStateUpdate over the wheel angles:
\* wheelAnglesRad[name] of every joint name, Undef when there is no such key.
RECURSIVE wheelAnglesRad(_)
wheelAnglesRad(angles) ==
    IF angles = <<>> THEN [name \in JointNames |-> Undef]
    ELSE LET n == Len(angles)
             wa == angles[n]
             out == wheelAnglesRad(SubSeq(angles, 1, n - 1))
             name == IF wa.joint_name.t = "string" THEN wa.joint_name.s ELSE ""
             pos == numberOrDefault(wa.position_rad, 0)
         IN  IF name = "" \/ ~IsFinite(pos) THEN out
             ELSE [out EXCEPT ![name] = pos]

\* normalizeRobotStateUpdate(raw) of robotStateHub
normalizeRobotStateUpdate(raw) ==
    LET timestampUnixMs == numberRequired(raw.timestamp_unix_ms)
        pose == normalizePose3D(raw.pose)
    IN  IF ~IsFinite(timestampUnixMs) THEN Rejected
        ELSE IF pose = Rejected THEN Rejected
        ELSE [tag |-> "snap", timestampUnixMs |-> timestampUnixMs,
              seq |-> normalizeSeq(raw.seq), pose |-> pose,
              wheelAnglesRad |-> wheelAnglesRad(wheelAnglesRaw(raw))]

\* normalizeMapUpdate(raw) of mapHub; png: normalizePngBase64 gives a string
normalizeMapUpdate(raw) ==
    LET timestampUnixMs == numberRequired(raw.timestamp_unix_ms)
        resolutionMPerPx == numberRequired(raw.resolution_m_per_px)
        origin == normalizePose3D(raw.origin)
    IN  IF ~IsFinite(timestampUnixMs) THEN Rejected
        ELSE IF ~IsFinite(resolutionMPerPx) \/ resolutionMPerPx.n <= 0 THEN Rejected
        ELSE IF origin = Rejected THEN Rejected
        ELSE IF ~raw.png THEN Rejected
        ELSE [tag |-> "snap", timestampUnixMs |-> timestampUnixMs,
              seq |-> normalizeSeq(raw.seq),
              resolutionMPerPx |-> resolutionMPerPx, origin |-> origin]

\* normalizeValuesMap(rawValues, selectedIds) of uiStatusBridge: the value of
\* every selected id, null when no message of the list carries it.
RECURSIVE normalizeValuesMap(_, _)
normalizeValuesMap(rawValues, selectedIds) ==
    IF rawValues = <<>> THEN [id \in selectedIds |-> Nul]
    ELSE LET n == Len(rawValues)
             v == rawValues[n]
             out == normalizeValuesMap(SubSeq(rawValues, 1, n - 1), selectedIds)
             id == IF v.id.t = "string" THEN v.id.s ELSE ""
             value == numberOrDefault(v.value, 0)
         IN  IF id = "" \/ id \notin selectedIds THEN out
             ELSE IF ~IsFinite(value) THEN out
             ELSE [out EXCEPT ![id] = value]

(***************************************************************************)
(* The hub's functions, as transformers of the hub state h.  h also        *)
(* carries what the running handler has done so far: the listener          *)
(* invocations (calls), whether an exception is propagating (threw),       *)
(* whether a stream open was tried (opened).                               *)
(***************************************************************************)
NoReentry == <<0, 0>>

\* The hubs behind an SSE route that subscribes: /api/status/stream,
\* /api/state/stream, /api/floor-topology/stream.  The callback of response
\* stream s is listener s of the hub.
SseKinds == {"status", "state", "topology"}

\* No request to the route has been made.
SseIdle ==
    [s \in Listeners |-> [controller |-> "none", keepAliveTimer |-> FALSE,
                          unsubscribe |-> FALSE, pushed |-> <<>>]]

\* A new step begins: nothing has been enqueued in it yet.
Quiet(x) == [s \in Listeners |-> [x[s] EXCEPT !.pushed = <<>>]]

\* The callback the route subscribes with, invoked with value v:
\* try { controller.enqueue(v ? sseEvent(topic, v) : sseEvent('clear')) }
\* catch {}; enqueue throws when the stream is no longer readable.
routeCallback(x, s, v) ==
    IF x[s].controller = "readable"
    THEN [x EXCEPT ![s].pushed = Append(@, IF v = Null THEN "clear" ELSE kind)]
    ELSE x

\* The route callbacks run by the listener invocations cs of a handler.
RECURSIVE Forwarded(_, _)
Forwarded(x, cs) ==
    IF cs = <<>> THEN x
    ELSE Forwarded(routeCallback(x, Head(cs)[1], Head(cs)[2]), Tail(cs))

H == [started |-> started, latest |-> latest, subscribers |-> subscribers,
      staleTimer |-> staleTimer, reconnectTimer |-> reconnectTimer,
      noDataTimer |-> noDataTimer, activeCall |-> activeCall,
      callListening |-> callListening, openStreams |-> openStreams,
      reconnectAttempt |-> reconnectAttempt,
      gotDataSinceConnect |-> gotDataSinceConnect, fatalError |-> fatalError,
      lastDelay |-> lastDelay, calls |-> <<>>, threw |-> FALSE, opened |-> FALSE,
      reentry |-> NoReentry, detached |-> FALSE,
      reconnectTimers |-> reconnectTimers, oldListening |-> oldListening,
      delivered |-> Null, markedSuccess |-> FALSE, sse |-> Quiet(sse)]

\* Run the statement F unless an exception is propagating.
Then(h, F(_)) == IF h.threw THEN h ELSE F(h)

\* getReconnectDelayMs(attempt)
getReconnectDelayMs(attempt) ==
    IF attempt <= 5 THEN grpcReconnectMs
    ELSE IF attempt <= 10 THEN TIER2_DELAY_MS
    ELSE TIER3_DELAY_MS

\* Index of the first listener of the set that throws (T: the listeners that
\* throw when invoked), or 0.
FirstThrower(subs, T) ==
    IF \E i \in 1..Len(subs) : subs[i] \in T
    THEN CHOOSE i \in 1..Len(subs) :
            subs[i] \in T /\ \A j \in 1..(i - 1) : subs[j] \notin T
    ELSE 0

\* Position of listener l in the insertion order of the set, or 0.
IndexOf(subs, l) ==
    IF \E i \in 1..Len(subs) : subs[i] = l
    THEN CHOOSE i \in 1..Len(subs) : subs[i] = l
    ELSE 0

\* A publish that iterates over a copy of the subscriber set taken when it
\* starts: a listener detached during the loop is still invoked.
\* publish(value) whose loop runs before the assignment and hands the
\* listeners the value held until now.
publishPrevious(h, v, T) ==
    LET subs == h.subscribers
        ft == FirstThrower(subs, T)
        n == IF ft = 0 THEN Len(subs) ELSE ft
    IN  [h EXCEPT !.calls = @ \o [i \in 1..n |-> <<subs[i], h.latest, h.latest>>],
                  !.threw = (ft # 0),
                  !.latest = v]

publishOverCopy(h, v, T) ==
    LET subs == h.subscribers
        d == IndexOf(subs, h.reentry[1])
        x == IndexOf(subs, h.reentry[2])
        ft == FirstThrower(subs, T)
        detaches == d # 0 /\ x # 0 /\ (ft = 0 \/ d <= ft)
        n == IF ft = 0 THEN Len(subs) ELSE ft
        set == [h EXCEPT !.latest = v]
    IN  [set EXCEPT !.calls = @ \o [i \in 1..n |-> <<subs[i], v, set.latest>>],
                  !.threw = (ft # 0),
                  !.subscribers = IF detaches
                                  THEN SelectSeq(subs, LAMBDA l : l # h.reentry[2])
                                  ELSE subs,
                  !.detached = @ \/ detaches]

\* publish(value): latest = value; for (const listener of subscribers) listener(value)
\* An invocation is <<listener, value, what getSnapshot() returns inside it>>.
\* The for-of loop over the Set visits the entries in insertion order and
\* skips an entry deleted before it was reached: when listener d of
\* h.reentry is invoked it deletes listener x.
publish(h, v, T) ==
    LET subs == h.subscribers
        d == IndexOf(subs, h.reentry[1])
        x == IndexOf(subs, h.reentry[2])
        ft == FirstThrower(subs, T)
        detaches == d # 0 /\ x # 0 /\ (ft = 0 \/ d <= ft)
        visited == IF detaches /\ x > d
                   THEN SelectSeq(subs, LAMBDA l : l # h.reentry[2])
                   ELSE subs
        fv == FirstThrower(visited, T)
        n == IF fv = 0 THEN Len(visited) ELSE fv
        set == [h EXCEPT !.latest = v]
    IN  [set EXCEPT !.calls = @ \o [i \in 1..n |-> <<visited[i], v, set.latest>>],
                  !.threw = (fv # 0),
                  !.subscribers = IF detaches
                                  THEN SelectSeq(subs, LAMBDA l : l # h.reentry[2])
                                  ELSE subs,
                  !.detached = @ \/ detaches]

\* clearAsStale()
clearAsStale(h, T) == publish(h, Null, T)

\* scheduleStaleClear()
scheduleStaleClear(h) == [h EXCEPT !.staleTimer = StaleMs(kind)]

\* scheduleReconnect()
\* scheduleReconnect() without its first line, if (reconnectTimer) return.
scheduleReconnectUnguarded(h) ==
    IF kind = "topology" /\ h.fatalError THEN h
    ELSE IF HasAttemptCounter(kind)
    THEN LET nextAttempt == h.reconnectAttempt + 1
             delayMs == getReconnectDelayMs(nextAttempt)
         IN  [h EXCEPT !.reconnectAttempt = nextAttempt,
                       !.reconnectTimer = delayMs, !.lastDelay = delayMs,
                       !.reconnectTimers = @ + 1]
    ELSE [h EXCEPT !.reconnectTimer = grpcReconnectMs, !.lastDelay = grpcReconnectMs,
                   !.reconnectTimers = @ + 1]

\* scheduleReconnect()
scheduleReconnect(h) ==
    IF h.reconnectTimer # Off THEN h
    ELSE IF kind = "topology" /\ h.fatalError THEN h
    ELSE IF HasAttemptCounter(kind)
    THEN LET nextAttempt == h.reconnectAttempt + 1
             delayMs == getReconnectDelayMs(nextAttempt)
         IN  [h EXCEPT !.reconnectAttempt = nextAttempt,
                       !.reconnectTimer = delayMs, !.lastDelay = delayMs,
                       !.reconnectTimers = @ + 1]
    ELSE [h EXCEPT !.reconnectTimer = grpcReconnectMs, !.lastDelay = grpcReconnectMs,
                   !.reconnectTimers = @ + 1]

\* startGrpcLoop() with the attempt counter reset as soon as the stream is
\* opened instead of on the first data frame.
startGrpcLoopResetOnOpen(h, ok) ==
    IF h.activeCall THEN h
    ELSE IF kind = "topology" /\ h.fatalError THEN h
    ELSE LET h1 == [h EXCEPT !.reconnectTimer = Off, !.opened = TRUE,
                             !.reconnectTimers =
                                 IF h.reconnectTimer # Off THEN @ - 1 ELSE @]
         IN  IF ok
             THEN [h1 EXCEPT !.activeCall = TRUE, !.callListening = TRUE,
                             !.openStreams = @ + 1,
                             !.gotDataSinceConnect = FALSE,
                             !.reconnectAttempt = 0,
                             !.noDataTimer = (kind = "topology")]
             ELSE IF CatchesOpenFailure(kind)
             THEN scheduleReconnect([h1 EXCEPT !.activeCall = FALSE,
                                               !.callListening = FALSE,
                                               !.noDataTimer = FALSE])
             ELSE [h1 EXCEPT !.threw = TRUE]

\* startGrpcLoop(); ok: resolving the proto, constructing the client and
\* opening the stream all succeed (otherwise the catch block runs).
startGrpcLoop(h, ok) ==
    IF h.activeCall THEN h
    ELSE IF kind = "topology" /\ h.fatalError THEN h
    ELSE LET h1 == [h EXCEPT !.reconnectTimer = Off, !.opened = TRUE,
                             !.reconnectTimers =
                                 IF h.reconnectTimer # Off THEN @ - 1 ELSE @]
         IN  IF ok
             THEN [h1 EXCEPT !.activeCall = TRUE, !.callListening = TRUE,
                             !.openStreams = @ + 1,
                             !.gotDataSinceConnect = FALSE,
                             !.noDataTimer = (kind = "topology")]
             ELSE IF CatchesOpenFailure(kind)
             THEN scheduleReconnect([h1 EXCEPT !.activeCall = FALSE,
                                               !.callListening = FALSE,
                                               !.noDataTimer = FALSE])
             ELSE [h1 EXCEPT !.threw = TRUE]

\* ensureStarted() without its first line, if (started) return.
ensureStartedAlways(h, ok) ==
    startGrpcLoop([h EXCEPT !.started = TRUE], ok)

\* ensureStarted()
ensureStarted(h, ok) ==
    IF h.started THEN h ELSE startGrpcLoop([h EXCEPT !.started = TRUE], ok)

\* failFatal(err) written like onDisconnect: it schedules a reconnect before
\* the fatal flag is set.
failFatalRetrying(h, T) ==
    IF h.fatalError THEN h
    ELSE LET h1 == [h EXCEPT !.activeCall = FALSE, !.callListening = FALSE,
                             !.noDataTimer = FALSE]
             h2 == clearAsStale(h1, T)
             h3 == IF h2.threw THEN h2
                   ELSE scheduleReconnect([h2 EXCEPT !.openStreams = @ - 1])
         IN  [h3 EXCEPT !.fatalError = TRUE]

\* failFatal(err); the caller's call.cancel() runs only when failFatal returns.
failFatal(h, T) ==
    IF h.fatalError THEN h
    ELSE LET h1 == [h EXCEPT !.fatalError = TRUE, !.activeCall = FALSE,
                             !.callListening = FALSE, !.noDataTimer = FALSE]
             h2 == clearAsStale(h1, T)
         IN  IF h2.threw THEN h2 ELSE [h2 EXCEPT !.openStreams = @ - 1]

\* call.on('data', ...) that clears the published value when the normalizer
\* rejects the frame.
onDataClearsOnReject(h, raw, T) ==
    IF kind = "topology" /\ h.fatalError THEN h
    ELSE LET h1 == IF HasAttemptCounter(kind) /\ ~h.gotDataSinceConnect
                   THEN [h EXCEPT !.gotDataSinceConnect = TRUE,
                                  !.reconnectAttempt = 0,
                                  !.noDataTimer = FALSE]
                   ELSE h
             normalized == normalize(kind, raw)
         IN  IF normalized = Rejected THEN clearAsStale(h1, T)
             ELSE IF normalized = Thrown THEN failFatal(h1, T)
             ELSE LET h2 == publish(h1, normalized, T)
                  IN  IF h2.threw
                      THEN IF kind = "topology"
                           THEN failFatal([h2 EXCEPT !.threw = FALSE], T)
                           ELSE h2
                      ELSE IF HasStaleTimer(kind) THEN scheduleStaleClear(h2)
                      ELSE h2

\* call.on('data', ...) that counts the connection as good only once a frame
\* has passed the normalizer.
onDataResetOnValid(h, raw, T) ==
    IF kind = "topology" /\ h.fatalError THEN h
    ELSE LET normalized == normalize(kind, raw)
             h1 == IF HasAttemptCounter(kind) /\ ~h.gotDataSinceConnect
                      /\ normalized # Rejected
                   THEN [h EXCEPT !.gotDataSinceConnect = TRUE,
                                  !.reconnectAttempt = 0,
                                  !.markedSuccess = UsesRetryLogger(kind),
                                  !.noDataTimer = FALSE]
                   ELSE h
         IN  IF normalized = Rejected THEN h1
             ELSE IF normalized = Thrown THEN failFatal(h1, T)
             ELSE LET h2 == publish(h1, normalized, T)
                  IN  IF h2.threw
                      THEN IF kind = "topology"
                           THEN failFatal([h2 EXCEPT !.threw = FALSE], T)
                           ELSE h2
                      ELSE IF HasStaleTimer(kind) THEN scheduleStaleClear(h2)
                      ELSE h2

\* call.on('data', ...) of the hub; T: the listeners that throw when this
\* handler invokes them.
onData(h, raw, T) ==
    IF kind = "topology" /\ h.fatalError THEN h
    ELSE LET h1 == IF HasAttemptCounter(kind) /\ ~h.gotDataSinceConnect
                   THEN [h EXCEPT !.gotDataSinceConnect = TRUE,
                                  !.reconnectAttempt = 0,
                                  !.markedSuccess = UsesRetryLogger(kind),
                                  !.noDataTimer = FALSE]
                   ELSE h
             normalized == normalize(kind, raw)
         IN  IF normalized = Rejected THEN h1
             ELSE IF normalized = Thrown THEN failFatal(h1, T)
             ELSE LET h2 == publish(h1, normalized, T)
                  IN  IF h2.threw
                      THEN IF kind = "topology"
                           THEN failFatal([h2 EXCEPT !.threw = FALSE], T)
                           ELSE h2
                      ELSE IF HasStaleTimer(kind) THEN scheduleStaleClear(h2)
                      ELSE h2

\* onDisconnect(err?) without activeCall?.removeAllListeners(): the hub's
\* listeners stay on the stream that is dropped.
onDisconnectLeavingListeners(h, T) ==
    IF kind = "topology" /\ h.fatalError THEN h
    ELSE LET h1 == [h EXCEPT !.activeCall = FALSE, !.callListening = FALSE,
                             !.oldListening = TRUE,
                             !.openStreams = @ - 1, !.noDataTimer = FALSE]
             h2 == IF ClearsOnDisconnect(kind) THEN clearAsStale(h1, T) ELSE h1
         IN  Then(h2, scheduleReconnect)

\* onDisconnect(err?) without activeCall = null: the reconnect is scheduled
\* while the hub still holds the reference to the stream.
onDisconnectKeepingCall(h, T) ==
    IF kind = "topology" /\ h.fatalError THEN h
    ELSE LET h1 == [h EXCEPT !.callListening = FALSE, !.oldListening = FALSE,
                             !.openStreams = @ - 1, !.noDataTimer = FALSE]
             h2 == IF ClearsOnDisconnect(kind) THEN clearAsStale(h1, T) ELSE h1
         IN  Then(h2, scheduleReconnect)

\* onDisconnect(err?) of the hub: the stream emitted error or end.
\* activeCall?.removeAllListeners() comes first.
onDisconnect(h, T) ==
    IF kind = "topology" /\ h.fatalError THEN h
    ELSE LET h1 == [h EXCEPT !.activeCall = FALSE, !.callListening = FALSE,
                             !.oldListening = FALSE,
                             !.openStreams = @ - 1, !.noDataTimer = FALSE]
             h2 == IF ClearsOnDisconnect(kind) THEN clearAsStale(h1, T) ELSE h1
         IN  Then(h2, scheduleReconnect)

\* subscribeX(listener)
subscribe(h, l, ok, T) ==
    LET h1 == ensureStarted(h, ok)
        h2 == IF \E i \in 1..Len(h1.subscribers) : h1.subscribers[i] = l
              THEN h1
              ELSE [h1 EXCEPT !.subscribers = Append(@, l)]
    IN  IF h1.threw THEN h1
        ELSE IF h2.latest # Null
        THEN [h2 EXCEPT !.calls = @ \o <<<<l, h2.latest, h2.latest>>>>,
                        !.threw = (l \in T)]
        ELSE h2

\* the detach function returned by subscribeX: subscribers.delete(listener)
unsubscribe(h, l) ==
    [h EXCEPT !.subscribers = SelectSeq(@, LAMBDA x : x # l)]

\* start(controller) of the response stream s of a hub-backed route: the
\* retry line, subscribeX(callback), the keep-alive interval.
streamStart(h, s, ok) ==
    LET h0 == [h EXCEPT !.sse[s] = [controller |-> "readable",
                                    keepAliveTimer |-> FALSE,
                                    unsubscribe |-> FALSE,
                                    pushed |-> <<"retry">>]]
        h1 == subscribe(h0, s, ok, {})
    IN  IF h1.threw THEN h1
        ELSE [h1 EXCEPT !.sse[s].unsubscribe = TRUE,
                        !.sse[s].keepAliveTimer = TRUE]

\* cancel() that stops the keep-alive timer and leaves the subscription.
streamCancelKeepingSubscription(h, s) ==
    [h EXCEPT !.sse[s].controller = "cancelled",
              !.sse[s].keepAliveTimer = FALSE]

\* cancel() of the response stream s: clearInterval(keepAliveTimer);
\* unsubscribe?.(); unsubscribe = null.
streamCancel(h, s) ==
    LET h0 == [h EXCEPT !.sse[s].controller = "cancelled",
                        !.sse[s].keepAliveTimer = FALSE]
    IN  IF h0.sse[s].unsubscribe
        THEN [unsubscribe(h0, s) EXCEPT !.sse[s].unsubscribe = FALSE]
        ELSE h0

(***************************************************************************)
(* Initial state: the module has been loaded, nothing was asked yet.       *)
(***************************************************************************)
Event(op, wrongFrame, result) == [op |-> op, wrongFrame |-> wrongFrame, result |-> result]

\* createRetryLogger(prefix): the closure variables at creation, at time now
\* (lastLoggedAt = null is Off).
createRetryLogger(now) ==
    [lastLoggedAt |-> Off, nextWindowMs |-> ONE_MIN_MS, suppressed |-> 0,
     windowStart |-> now]

\* No line was written.
NoLine == [wrote |-> FALSE, hidden |-> 0, overMs |-> 0]

\* The hubs whose module holds const retryLog = getGrpcRetryLogger().
LogHubs == {"lidar", "topology"}

\* No module has asked for the logger: the global is unset.  Instance 1 keeps
\* its closure variables in retryLog, a second instance in other.
NoGlobal ==
    [global |-> 0, created |-> 0, ref |-> [h \in LogHubs |-> 0],
     other |-> createRetryLogger(0)]

\* getGrpcRetryLogger() that creates a logger on every call.
getGrpcRetryLoggerPerModule(g, hub) ==
    [g EXCEPT !.global = g.created + 1, !.created = @ + 1,
              !.ref[hub] = g.created + 1]

\* getGrpcRetryLogger(), called at the load of the module of hub: the
\* instance it returns is what the module keeps in retryLog.
getGrpcRetryLogger(g, hub) ==
    IF g.global = 0
    THEN [g EXCEPT !.global = g.created + 1, !.created = @ + 1,
                   !.ref[hub] = g.created + 1]
    ELSE [g EXCEPT !.ref[hub] = g.global]

\* Both hub modules have been imported.
ModulesLoaded ==
    getGrpcRetryLogger(getGrpcRetryLogger(NoGlobal, "topology"), "lidar")

LoggerIdle ==
    /\ retryLog = createRetryLogger(0)
    /\ logNow = 0
    /\ logOut = [op |-> "create", hub |-> "none", line |-> NoLine]
    /\ logHist = [lines |-> 0, unreported |-> 0, marker |-> "none",
                  failing |-> {}, failingAtMark |-> {}]
    /\ grpcLog = ModulesLoaded

MaxOps == 2
MaxRequests == 3
HASH_PREFIX_LEN == 10
Ops == 1..MaxOps
Requests == 1..MaxRequests

\* fileSize() of a path that does not exist: null.
NoSize == -1

\* sha256 strings, as sequences of characters, and byte lengths.
Shas == {<<"a", "a">>, <<"a", "b">>}
Sizes == 1..2

\* A path with no file, and the metadata of an operation that has none yet.
NoFile == [digest |-> <<>>, size |-> NoSize]
NoMeta == [sha256 |-> <<>>, sizeBytes |-> 0]

\* meta.sha256.slice(0, HASH_PREFIX_LEN): the name of the cache file.
filenameOf(sha256) ==
    SubSeq(sha256, 1, IF Len(sha256) < HASH_PREFIX_LEN THEN Len(sha256)
                      ELSE HASH_PREFIX_LEN)

Filenames == {filenameOf(s) : s \in Shas}

\* The module robotModelCache.ts just loaded, over a cache directory.
CacheLoaded(disk) ==
    [inflight |-> 0, started |-> 0,
     phase |-> [o \in Ops |-> "none"],
     meta |-> [o \in Ops |-> NoMeta],
     result |-> [o \in Ops |-> "none"],
     pendingFinally |-> [o \in Ops |-> FALSE],
     awaits |-> [r \in Requests |-> 0],
     files |-> disk,
     tmp |-> [f \in Filenames |-> NoFile],
     streams |-> 0,
     last |-> [op |-> "load", req |-> 0, o |-> 0, meta |-> NoMeta,
               got |-> [error |-> FALSE, digest |-> <<>>, size |-> 0]]]

EmptyDisk == [f \in Filenames |-> NoFile]

CacheIdle == modelCache = CacheLoaded(EmptyDisk)

MaxClientOps == 3
MaxClientCalls == 4
ClientOps == 1..MaxClientOps
ClientCalls == 1..MaxClientCalls

\* What ensureRobotModelReady() returned to a call: nothing yet (the call
\* was not made), Promise.resolve(cached), or the promise of an operation.
NotCalled == -1
Resolved == 0

\* The module robotModelClient.ts at page load.
ClientIdle ==
    modelClient = [cached |-> FALSE, inflight |-> 0, started |-> 0,
                   phase |-> [o \in ClientOps |-> "none"],
                   result |-> [o \in ClientOps |-> "none"],
                   returned |-> [k \in ClientCalls |-> NotCalled],
                   metaFetches |-> 0, glbFetches |-> 0,
                   last |-> [op |-> "load", call |-> 0, o |-> 0]]

\* The libraries beside the hubs have just been loaded.
\* Events of the response stream and of the upstream call the model follows
\* per request.
MaxSseEvents == 4
MaxDisconnects == 3

\* No request to /api/status/stream has been made.
StatusRouteIdle ==
    statusRoute = [controller |-> "none", cancelled |-> FALSE,
                   keepAliveTimer |-> FALSE, closed |-> FALSE,
                   callCancels |-> 0, clientCloses |-> 0, sent |-> <<>>,
                   first |-> "none", disconnects |-> 0, last |-> "load"]

LibIdle == LoggerIdle /\ CacheIdle /\ ClientIdle /\ StatusRouteIdle

\* No normalizer call is being looked at.
NormIdle == [fn |-> "none", called |-> FALSE, raw |-> <<>>, out |-> <<>>]

Init ==
    /\ kind \in Kinds
    /\ started = FALSE
    /\ latest = Null
    /\ subscribers = <<>>
    /\ staleTimer = Off
    /\ reconnectTimer = Off
    /\ noDataTimer = FALSE
    /\ activeCall = FALSE
    /\ callListening = FALSE
    /\ openStreams = 0
    /\ reconnectAttempt = 0
    /\ gotDataSinceConnect = FALSE
    /\ fatalError = FALSE
    /\ routeStreams = {}
    /\ ev = Event("init", FALSE, "none")
    /\ calls = <<>>
    /\ uncaught = FALSE
    /\ opened = FALSE
    /\ lastDelay = Off
    /\ failures = 0
    /\ sincePublish = Off
    /\ norm = NormIdle
    /\ reentry = NoReentry
    /\ lastSeen = [l \in Listeners |-> "none"]
    /\ reconnectTimers = 0
    /\ oldListening = FALSE
    /\ delivered = Null
    /\ markedSuccess = FALSE
    /\ sse = SseIdle
    /\ LibIdle

\* What listener l has received last once the handler e that left h is over.
LastSeenAfter(h, e, l) ==
    LET mine == SelectSeq(h.calls, LAMBDA c : c[1] = l)
        last == IF mine = <<>> THEN lastSeen[l]
                ELSE IF mine[Len(mine)][2] = Null THEN "null"
                ELSE "snap"
    IN  IF ~\E i \in 1..Len(h.subscribers) : h.subscribers[i] = l THEN "none"
        ELSE IF last = "snap" /\ e.op \in {"error", "end", "staleFire"} THEN "owed"
        ELSE last

Commit(h, e) ==
    /\ started' = h.started
    /\ latest' = h.latest
    /\ subscribers' = h.subscribers
    /\ staleTimer' = h.staleTimer
    /\ reconnectTimer' = h.reconnectTimer
    /\ reconnectTimers' = h.reconnectTimers
    /\ oldListening' = h.oldListening
    /\ noDataTimer' = h.noDataTimer
    /\ activeCall' = h.activeCall
    /\ callListening' = h.callListening
    /\ openStreams' = h.openStreams
    /\ reconnectAttempt' = h.reconnectAttempt
    /\ gotDataSinceConnect' = h.gotDataSinceConnect
    /\ fatalError' = h.fatalError
    /\ lastDelay' = h.lastDelay
    /\ calls' = h.calls
    /\ uncaught' = h.threw
    /\ opened' = h.opened
    /\ ev' = e
    /\ reentry' = IF h.detached THEN h.reentry ELSE NoReentry
    /\ delivered' = h.delivered
    /\ markedSuccess' = h.markedSuccess
    /\ sse' = Forwarded(h.sse, h.calls)
    /\ lastSeen' = [l \in Listeners |-> LastSeenAfter(h, e, l)]
    /\ UNCHANGED <<kind, routeStreams, norm, libVars>>

\* The handler tried to open a stream and failed.
OpenFailed(h) == h.opened /\ ~h.activeCall

(***************************************************************************)
(* Operations of a hub.                                                    *)
(***************************************************************************)
\* getXSnapshot()
GetSnapshot(ok) ==
    /\ kind \in HubKinds
    /\ LET h == ensureStarted(H, ok)
       IN  /\ Commit(h, Event("getSnapshot", FALSE, "none"))
           /\ failures' = IF OpenFailed(h) THEN failures + 1 ELSE failures
    /\ UNCHANGED sincePublish

\* subscribeX(listener)
Subscribe(l, ok, T) ==
    /\ kind \in HubKinds
    /\ LET h == subscribe(H, l, ok, T)
       IN  /\ Commit(h, Event("subscribe", FALSE, ToString(l)))
           /\ failures' = IF OpenFailed(h) THEN failures + 1 ELSE failures
    /\ UNCHANGED sincePublish

\* the detach function of a registered listener
Unsubscribe(l) ==
    /\ kind \in HubKinds
    /\ \E i \in 1..Len(subscribers) : subscribers[i] = l
    /\ Commit(unsubscribe(H, l), Event("unsubscribe", FALSE, "none"))
    /\ UNCHANGED <<failures, sincePublish>>

\* the active stream emits 'data'
Data(raw, T, D) ==
    /\ kind \in HubKinds
    /\ activeCall /\ callListening
    /\ LET normalized == normalize(kind, raw)
           h == onData([H EXCEPT !.reentry = D,
                                 !.delivered = IF normalized.tag = "snap"
                                               THEN normalized ELSE Null],
                       raw, T)
       IN  /\ Commit(h, Event("data", HasWrongFrame(raw), normalized.tag))
           /\ sincePublish' = IF normalized.tag = "snap" THEN 0 ELSE sincePublish
    /\ failures' = 0

\* the active stream emits 'error' or 'end'
Disconnect(e, T, D) ==
    /\ kind \in HubKinds
    /\ activeCall /\ callListening
    /\ failures < MaxAttempt
    /\ Commit(onDisconnect([H EXCEPT !.reentry = D], T), Event(e, FALSE, "none"))
    /\ failures' = failures + 1
    /\ UNCHANGED sincePublish

\* the stale timer expires: clearAsStale()
StaleFire(T, D) ==
    /\ kind \in HubKinds
    /\ staleTimer = 0
    /\ Commit(clearAsStale([H EXCEPT !.staleTimer = Off, !.reentry = D], T),
              Event("staleFire", FALSE, "none"))
    /\ UNCHANGED <<failures, sincePublish>>

\* the reconnect timer expires: reconnectTimer = null; startGrpcLoop()
ReconnectFire(ok) ==
    /\ kind \in HubKinds
    /\ reconnectTimer = 0
    /\ ok \/ failures < MaxAttempt
    /\ LET h == startGrpcLoop([H EXCEPT !.reconnectTimer = Off,
                                           !.reconnectTimers = @ - 1], ok)
       IN  /\ Commit(h, Event("reconnectFire", FALSE, "none"))
           /\ failures' = IF OpenFailed(h) THEN failures + 1 ELSE failures
    /\ UNCHANGED sincePublish

\* floorTopologyHub: the "waiting (no data yet)" timer expires; it only logs.
NoDataFire ==
    /\ kind = "topology"
    /\ noDataTimer
    /\ Commit([H EXCEPT !.noDataTimer = FALSE], Event("noDataFire", FALSE, "none"))
    /\ UNCHANGED <<failures, sincePublish>>

\* A stream the hub has dropped emits an event: a stream that was not
\* cancelled emits data, error or end, or the stream that has just emitted
\* 'error' emits its 'end'.  A handler of the hub runs only if the hub's
\* listeners are still on that stream.
OrphanEvent(e) ==
    /\ kind \in HubKinds
    /\ LET lingering == openStreams > 0 /\ ~callListening
           trailing == e = "orphanEnd" /\ ev.op = "error"
           h0 == [H EXCEPT !.openStreams =
                      IF lingering /\ e # "orphanData" THEN @ - 1 ELSE @]
           frame == CHOOSE raw \in RawFrames(kind) : normalize(kind, raw).tag = "snap"
       IN  /\ lingering \/ trailing
           /\ Commit(IF ~oldListening THEN h0
                     ELSE IF e = "orphanData" THEN onData(h0, frame, {})
                     ELSE onDisconnect(h0, {}),
                     Event(e, FALSE, "none"))
    /\ UNCHANGED <<failures, sincePublish>>

(***************************************************************************)
(* Time.  A pending timer with 0 ms left must run before time moves on.    *)
(***************************************************************************)
Pending == {t \in {staleTimer, reconnectTimer} : t # Off}

Min(S) == CHOOSE x \in S : \A y \in S : x <= y

SinceCap == StaleMs(kind) + 1

AdvanceSteps ==
    (IF Pending # {} THEN {Min(Pending)} ELSE {})
    \cup (IF reconnectTimer = Off THEN {StepMs} ELSE {})

Advance(d) ==
    /\ kind \in HubKinds
    /\ d \in AdvanceSteps
    /\ d > 0
    /\ \A t \in Pending : d <= t
    /\ Pending # {} \/ (sincePublish # Off /\ sincePublish < SinceCap)
    /\ staleTimer' = IF staleTimer = Off THEN Off ELSE staleTimer - d
    /\ reconnectTimer' = IF reconnectTimer = Off THEN Off ELSE reconnectTimer - d
    /\ sincePublish' = IF sincePublish = Off THEN Off
                       ELSE IF sincePublish + d > SinceCap THEN SinceCap
                       ELSE sincePublish + d
    /\ ev' = Event("advance", FALSE, "none")
    /\ calls' = <<>>
    /\ uncaught' = FALSE
    /\ opened' = FALSE
    /\ reentry' = NoReentry
    /\ delivered' = Null
    /\ markedSuccess' = FALSE
    /\ sse' = Quiet(sse)
    /\ UNCHANGED <<kind, started, latest, subscribers, noDataTimer, activeCall,
                   callListening, openStreams, reconnectAttempt,
                   gotDataSinceConnect, fatalError, routeStreams, lastDelay,
                   failures, norm, lastSeen, reconnectTimers, oldListening,
                   libVars>>

(***************************************************************************)
(* Status SSE route: GET /api/status/stream opens its own upstream stream  *)
(* through openUiStatusStream() for every client.                          *)
(***************************************************************************)
RouteStep(e) ==
    /\ ev' = Event(e, FALSE, "none")
    /\ calls' = <<>>
    /\ uncaught' = FALSE
    /\ reentry' = NoReentry
    /\ delivered' = Null
    /\ markedSuccess' = FALSE
    /\ sse' = Quiet(sse)
    /\ UNCHANGED <<kind, hubVars, lastDelay, failures, sincePublish, norm,
                   lastSeen, reconnectTimers, oldListening, libVars>>

\* GET handler: openUiStatusStream() -> createUiBridgeClient(); client.StreamStatus({})
RouteOpen(c) ==
    /\ kind = "route"
    /\ c \notin routeStreams
    /\ routeStreams' = routeStreams \cup {c}
    /\ opened' = TRUE
    /\ RouteStep("routeOpen")

\* close(): by cancel() of the response stream, or by error/end of the call
RouteClose(c, e) ==
    /\ kind = "route"
    /\ c \in routeStreams
    /\ routeStreams' = routeStreams \ {c}
    /\ opened' = FALSE
    /\ RouteStep(e)

(***************************************************************************)
(* Inputs of the environment.  The sets of throwing listeners range over   *)
(* the registered listeners, and only where the handler invokes them.      *)
(***************************************************************************)
Registered == {subscribers[i] : i \in 1..Len(subscribers)}

OpenOutcomes == IF started THEN {TRUE} ELSE BOOLEAN

\* A publish loop stops at the first listener that throws, so one thrower at
\* most is told apart.
Throwers == {{}} \cup {{l} : l \in Registered}

\* What the listeners do inside their callbacks besides throwing: nothing,
\* or listener d calls the detach function of listener x.
Reentries == {NoReentry} \cup (Registered \X Registered)

ThrowSets(raw) ==
    IF normalize(kind, raw).tag \in {"snap", "thrown"} THEN Throwers ELSE {{}}

Next ==
    \/ \E ok \in OpenOutcomes : GetSnapshot(ok)
    \/ \E l \in Listeners, ok \in OpenOutcomes :
          \E T \in (IF latest # Null THEN SUBSET {l} ELSE {{}}) : Subscribe(l, ok, T)
    \/ \E l \in Listeners : Unsubscribe(l)
    \/ \E raw \in RawFrames(kind) :
          \E T \in ThrowSets(raw) : \E D \in Reentries : Data(raw, T, D)
    \/ \E e \in {"error", "end"}, T \in Throwers :
          \E D \in Reentries : Disconnect(e, T, D)
    \/ \E T \in Throwers : \E D \in Reentries : StaleFire(T, D)
    \/ \E ok \in BOOLEAN : ReconnectFire(ok)
    \/ NoDataFire
    \/ \E e \in {"orphanData", "orphanError", "orphanEnd"} : OrphanEvent(e)
    \/ \E d \in AdvanceSteps : Advance(d)
    \/ \E c \in RouteClients : RouteOpen(c)
    \/ \E c \in RouteClients, e \in {"routeCancel", "routeError", "routeEnd"} : RouteClose(c, e)

Spec == Init /\ [][Next]_vars

\* The event loop: time passes, and a timer that has expired runs its
\* callback.
LiveSpec ==
    /\ Spec
    /\ WF_vars(\E d \in AdvanceSteps : Advance(d))
    /\ WF_vars(\E ok \in BOOLEAN : ReconnectFire(ok))
    /\ WF_vars(\E T \in Throwers : \E D \in Reentries : StaleFire(T, D))

(***************************************************************************)
(* The normalizers as pure functions: a call is drawn in NormInit and the  *)
(* step of its normalizer computes the result.  No hub runs.               *)
(***************************************************************************)
\* Values a numeric field of a raw record can hold.
NumericVals == {Undef, Nul, NaNv, Infv, Num(0), Num(1000), Str(""), Str("1000"),
                Str("abc"), Bool(TRUE), Arr(0), Arr(2)}

\* Values of a scalar with a default, and of an optional scalar.
ScalarVals == {Undef, Nul, NaNv, Num(3), Str("5"), Str("abc")}

RawPoses == [x : ScalarVals, qw : {Undef, Num(1), NaNv}]

SelectedIds == {"cpu_percent", "voltage_v"}

RawValueMessages ==
    [id : {Str("cpu_percent"), Str("voltage_v"), Str("other"), Undef},
     value : {Undef, Num(3), NaNv}]

\* yawFromQuaternionZUp works on numbers: here quaternion components are
\* fixed-point, in units of 1/YawScale, and angles are in units of 1e-4 rad.
YawScale == 10000
PiE4 == 31416
HalfPiE4 == 15708

\* Components of the quaternions tried: 0, 1/2, sin and cos of 22.5 and 45
\* degrees, 1, rounded to the unit, with both signs.
Components == {0, 3827, -3827, 5000, -5000, 7071, -7071, 9239, -9239, 10000, -10000}

Abs(n) == IF n < 0 THEN -n ELSE n

\* p / q in units of 1e-4, for 0 <= p <= q and q > 0, by long division.
RatioE4(p, q) ==
    IF q < 200000 THEN (p * 10000) \div q
    ELSE LET p1 == p \div 100
             q1 == q \div 100
         IN  100 * ((100 * p1) \div q1) + (100 * ((100 * p1) % q1)) \div q1

\* atan at 0, 1/8, ..., 1, in units of 1e-4 rad.
AtanTable == <<0, 1244, 2450, 3588, 4636, 5586, 6435, 7188, 7854>>

\* Math.atan(t) for t in 0..1 given in units of 1e-4: the table, interpolated.
AtanE4(t) ==
    LET k == IF t >= 10000 THEN 7 ELSE t \div 1250
    IN  AtanTable[k + 1]
          + ((t - 1250 * k) * (AtanTable[k + 2] - AtanTable[k + 1])) \div 1250

\* Math.atan2(y, x): the angle of the point (x, y), in [-pi, pi].
atan2(y, x) ==
    IF y = 0 THEN (IF x >= 0 THEN 0 ELSE PiE4)
    ELSE LET a == Abs(y)
             b == Abs(x)
             base == IF a <= b THEN AtanE4(RatioE4(a, b))
                     ELSE HalfPiE4 - AtanE4(RatioE4(b, a))
             ang == IF x >= 0 THEN base ELSE PiE4 - base
         IN  IF y > 0 THEN ang ELSE -ang

\* yawFromQuaternionZUp that looks at qz and qw only.
yawFromQuaternionZUpPlanar(qx, qy, qz, qw) ==
    LET siny == 2 * (qw * qz)
        cosy == YawScale * YawScale - 2 * (qz * qz)
    IN  atan2(siny, cosy)

\* yawFromQuaternionZUp(qx, qy, qz, qw)
yawFromQuaternionZUp(qx, qy, qz, qw) ==
    LET siny == 2 * (qw * qz + qx * qy)
        cosy == YawScale * YawScale - 2 * (qy * qy + qz * qz)
    IN  atan2(siny, cosy)

\* Elements of the nested lists: polyline points, rate metrics, wheel angles.
MaxElements == 2
RawPoints == [x : {Num(1), Undef, Nul, NaNv, Infv}, y : {Num(2), Undef}]
RawRateMetrics ==
    [id : {Str("odom"), Str("scan"), Str(""), Undef},
     hz : {Num(3), Undef, Nul, NaNv}, target_hz : {Undef}]
RawJointAngles ==
    [joint_name : {Str("left"), Str(""), Undef},
     position_rad : {Num(3), Undef, NaNv}]

\* Records that are valid but for the elements of their nested list.
NestedCalls ==
    [fn : {"normalizeFloorTopologyUpdate"},
     raw : [timestamp_unix_ms : {Num(1000)}, seq : SeqVals, rest : {"ok"},
            polylines : [1..1 -> [id : IdVals,
                                  frame_id : {Str(EXPECTED_POLYLINE_FRAME_ID)},
                                  points : SeqsUpTo(RawPoints, MaxElements)]]]]
    \cup
    [fn : {"normalizeStatusUpdate"},
     raw : [timestamp_unix_ms : {Num(1000), Undef}, seq : {Undef},
            cpu_percent : {Num(0)}, voltage_v : {Undef},
            rates : SeqsUpTo(RawRateMetrics, MaxElements)]]
    \cup
    [fn : {"normalizeRobotStateUpdate"},
     raw : [timestamp_unix_ms : {Num(1000)}, seq : {Undef},
            pose : {[x |-> Num(3), qw |-> Num(1)]},
            wheel_angles : SeqsUpTo(RawJointAngles, MaxElements)]]

NormCalls ==
    NestedCalls
    \cup
    [fn : {"normalizeStatusUpdate"},
     raw : [timestamp_unix_ms : NumericVals, seq : {Undef},
            cpu_percent : NumericVals, voltage_v : ScalarVals]]
    \cup
    [fn : {"normalizeLidarUpdate"},
     raw : [timestamp_unix_ms : NumericVals, seq : {Undef},
            angle_min : ScalarVals, angle_increment : NumericVals,
            ranges : {Arr(2), Undef}]]
    \cup
    [fn : {"normalizeRobotStateUpdate"},
     raw : [timestamp_unix_ms : NumericVals, seq : {Undef}, pose : RawPoses]]
    \cup
    [fn : {"normalizeMapUpdate"},
     raw : [timestamp_unix_ms : NumericVals, seq : {Undef},
            resolution_m_per_px : NumericVals,
            origin : [x : {Undef, Num(3)}, qw : {Undef, NaNv}],
            png : BOOLEAN]]
    \cup
    [fn : {"normalizeFloorTopologyUpdate"},
     raw : [timestamp_unix_ms : NumericVals, seq : SeqVals, rest : {"ok"},
            polylines : SeqsUpTo(RawPolylines, MaxPolylines)]]
    \cup
    [fn : {"normalizeValuesMap"},
     raw : [values : SeqsUpTo(RawValueMessages, 2)]]
    \cup
    [fn : {"yawFromQuaternionZUp"},
     raw : [qx : Components, qy : Components, qz : Components, qw : Components]]

NormInit ==
    /\ kind = "route"
    /\ started = FALSE
    /\ latest = Null
    /\ subscribers = <<>>
    /\ staleTimer = Off
    /\ reconnectTimer = Off
    /\ noDataTimer = FALSE
    /\ activeCall = FALSE
    /\ callListening = FALSE
    /\ openStreams = 0
    /\ reconnectAttempt = 0
    /\ gotDataSinceConnect = FALSE
    /\ fatalError = FALSE
    /\ routeStreams = {}
    /\ ev = Event("init", FALSE, "none")
    /\ calls = <<>>
    /\ uncaught = FALSE
    /\ opened = FALSE
    /\ lastDelay = Off
    /\ failures = 0
    /\ sincePublish = Off
    /\ reentry = NoReentry
    /\ lastSeen = [l \in Listeners |-> "none"]
    /\ reconnectTimers = 0
    /\ oldListening = FALSE
    /\ delivered = Null
    /\ markedSuccess = FALSE
    /\ sse = SseIdle
    /\ LibIdle
    /\ \E c \in NormCalls :
          norm = [fn |-> c.fn, called |-> FALSE, raw |-> c.raw, out |-> <<>>]

\* What a normalizer call leaves alone: the hub.
normFrame == <<kind, hubVars, routeStreams, ev, calls, uncaught, opened,
               lastDelay, failures, sincePublish, reentry, lastSeen,
               reconnectTimers, oldListening, delivered,
               markedSuccess, sse, libVars>>

\* The call has returned out.
Returned(out) == [norm EXCEPT !.called = TRUE, !.out = out]

NormalizeStatusUpdate ==
    /\ norm.fn = "normalizeStatusUpdate" /\ ~norm.called
    /\ norm' = Returned(normalizeStatusUpdate(norm.raw))
    /\ UNCHANGED normFrame

NormalizeLidarUpdate ==
    /\ norm.fn = "normalizeLidarUpdate" /\ ~norm.called
    /\ norm' = Returned(normalizeLidarUpdate(norm.raw))
    /\ UNCHANGED normFrame

NormalizeRobotStateUpdate ==
    /\ norm.fn = "normalizeRobotStateUpdate" /\ ~norm.called
    /\ norm' = Returned(normalizeRobotStateUpdate(norm.raw))
    /\ UNCHANGED normFrame

NormalizeMapUpdate ==
    /\ norm.fn = "normalizeMapUpdate" /\ ~norm.called
    /\ norm' = Returned(normalizeMapUpdate(norm.raw))
    /\ UNCHANGED normFrame

NormalizeFloorTopologyUpdate ==
    /\ norm.fn = "normalizeFloorTopologyUpdate" /\ ~norm.called
    /\ norm' = Returned(normalizeFloorTopologyUpdate(norm.raw))
    /\ UNCHANGED normFrame

NormalizeValuesMap ==
    /\ norm.fn = "normalizeValuesMap" /\ ~norm.called
    /\ norm' = Returned(normalizeValuesMap(norm.raw.values, SelectedIds))
    /\ UNCHANGED normFrame

YawFromQuaternionZUp ==
    /\ norm.fn = "yawFromQuaternionZUp" /\ ~norm.called
    /\ norm' = Returned(yawFromQuaternionZUp(norm.raw.qx, norm.raw.qy,
                                              norm.raw.qz, norm.raw.qw))
    /\ UNCHANGED normFrame

NormNext ==
    \/ YawFromQuaternionZUp
    \/ NormalizeStatusUpdate
    \/ NormalizeLidarUpdate
    \/ NormalizeRobotStateUpdate
    \/ NormalizeMapUpdate
    \/ NormalizeFloorTopologyUpdate
    \/ NormalizeValuesMap

NormSpec == NormInit /\ [][NormNext]_vars

(***************************************************************************)
(* The shared failure logger, createRetryLogger (part_008:27-80).  Its      *)
(* functions return the new closure state and the line written to stderr.  *)
(***************************************************************************)
TickMs == 30000
LogHorizon == 900000
MaxSuppressed == 3

\* reset()
reset(r, now) ==
    [lastLoggedAt |-> Off, nextWindowMs |-> ONE_MIN_MS, suppressed |-> 0,
     windowStart |-> now]

\* logFailure(context, err) whose window stays at one minute after every line.
logFailureFixedWindow(r, now) ==
    IF r.lastLoggedAt = Off
    THEN [state |-> [lastLoggedAt |-> now, nextWindowMs |-> ONE_MIN_MS,
                     suppressed |-> 0, windowStart |-> now],
          line |-> [wrote |-> TRUE, hidden |-> 0, overMs |-> 0]]
    ELSE IF now - r.lastLoggedAt < r.nextWindowMs
    THEN [state |-> [r EXCEPT !.suppressed = @ + 1], line |-> NoLine]
    ELSE [state |-> [lastLoggedAt |-> now, nextWindowMs |-> ONE_MIN_MS,
                     suppressed |-> 0, windowStart |-> now],
          line |-> [wrote |-> TRUE, hidden |-> r.suppressed,
                    overMs |-> now - r.windowStart]]

\* logFailure(context, err)
logFailure(r, now) ==
    IF r.lastLoggedAt = Off
    THEN [state |-> [lastLoggedAt |-> now, nextWindowMs |-> ONE_MIN_MS,
                     suppressed |-> 0, windowStart |-> now],
          line |-> [wrote |-> TRUE, hidden |-> 0, overMs |-> 0]]
    ELSE IF now - r.lastLoggedAt < r.nextWindowMs
    THEN [state |-> [r EXCEPT !.suppressed = @ + 1], line |-> NoLine]
    ELSE [state |-> [lastLoggedAt |-> now, nextWindowMs |-> FIVE_MIN_MS,
                     suppressed |-> 0, windowStart |-> now],
          line |-> [wrote |-> TRUE, hidden |-> r.suppressed,
                    overMs |-> now - r.windowStart]]

\* markSuccess(): reset(), nothing is written.
markSuccess(r, now) == [state |-> reset(r, now), line |-> NoLine]

\* What a call on the logger leaves alone: the hubs and the normalizers.
logFrame == <<kind, hubVars, routeStreams, ev, calls, uncaught, opened,
              lastDelay, failures, sincePublish, reentry, lastSeen,
              reconnectTimers, oldListening, delivered,
              markedSuccess, sse, norm, modelCache, modelClient, statusRoute>>

LoggerInit ==
    /\ kind = "route"
    /\ started = FALSE
    /\ latest = Null
    /\ subscribers = <<>>
    /\ staleTimer = Off
    /\ reconnectTimer = Off
    /\ noDataTimer = FALSE
    /\ activeCall = FALSE
    /\ callListening = FALSE
    /\ openStreams = 0
    /\ reconnectAttempt = 0
    /\ gotDataSinceConnect = FALSE
    /\ fatalError = FALSE
    /\ routeStreams = {}
    /\ ev = Event("init", FALSE, "none")
    /\ calls = <<>>
    /\ uncaught = FALSE
    /\ opened = FALSE
    /\ lastDelay = Off
    /\ failures = 0
    /\ sincePublish = Off
    /\ reentry = NoReentry
    /\ lastSeen = [l \in Listeners |-> "none"]
    /\ reconnectTimers = 0
    /\ oldListening = FALSE
    /\ delivered = Null
    /\ markedSuccess = FALSE
    /\ sse = SseIdle
    /\ norm = NormIdle
    /\ LibIdle

\* The closure variables of the logger the module of hub holds in retryLog.
LoggerOf(hub) == IF grpcLog.ref[hub] = 1 THEN retryLog ELSE grpcLog.other

\* The call of hub has left its logger in state r.
LoggerStored(hub, r) ==
    IF grpcLog.ref[hub] = 1
    THEN retryLog' = r /\ grpcLog' = grpcLog
    ELSE retryLog' = retryLog /\ grpcLog' = [grpcLog EXCEPT !.other = r]

\* retryLog.logFailure('down', err) in the module of hub
LogFailure(hub) ==
    /\ LET res == logFailure(LoggerOf(hub), logNow)
       IN  /\ LoggerOf(hub).suppressed < MaxSuppressed \/ res.line.wrote
           /\ LoggerStored(hub, res.state)
           /\ logOut' = [op |-> "logFailure", hub |-> hub, line |-> res.line]
           /\ logHist' = IF res.line.wrote
                         THEN [logHist EXCEPT
                                 !.lines = IF @ < 2 THEN @ + 1 ELSE 2,
                                 !.unreported = 0,
                                 !.failing = @ \cup {hub}]
                         ELSE [logHist EXCEPT !.unreported = @ + 1,
                                              !.failing = @ \cup {hub}]
    /\ UNCHANGED <<logNow, logFrame>>

\* retryLog.markSuccess() in the module of hub
MarkSuccess(hub) ==
    /\ LET res == markSuccess(LoggerOf(hub), logNow)
       IN  /\ LoggerStored(hub, res.state)
           /\ logOut' = [op |-> "markSuccess", hub |-> hub, line |-> res.line]
    /\ logHist' = [lines |-> 0, unreported |-> 0, marker |-> hub,
                   failing |-> logHist.failing \ {hub},
                   failingAtMark |-> logHist.failing \ {hub}]
    /\ UNCHANGED <<logNow, logFrame>>

\* Date.now() moves on.
LogTick ==
    /\ logNow + TickMs <= LogHorizon
    /\ logNow' = logNow + TickMs
    /\ logOut' = [op |-> "tick", hub |-> "none", line |-> NoLine]
    /\ UNCHANGED <<retryLog, logHist, grpcLog, logFrame>>

LoggerNext ==
    \/ \E hub \in LogHubs : LogFailure(hub)
    \/ \E hub \in LogHubs : MarkSuccess(hub)
    \/ LogTick

LoggerSpec == LoggerInit /\ [][LoggerNext]_vars

(***************************************************************************)
(* The server's model cache, robotModelCache.ts.  An operation is one run  *)
(* of the async function ensureModelCached() stores in inflight: fetchMeta,*)
(* the size test of the cached file, downloadModel.  Its awaits are the    *)
(* steps; the functions take and return the module's state.                *)
(***************************************************************************)
\* What GetRobotModelMeta can answer, and what the GetRobotModel stream can
\* bring: an error, or bytes with their SHA-256 and their length.
RawMetas == [err : BOOLEAN, sha256 : Shas \cup {<<>>}, size_bytes : 0..2]
Downloads == [error : BOOLEAN, digest : Shas, size : 0..2]

\* Cache directories left by earlier runs: deleteOtherModels keeps one file.
Disks ==
    {EmptyDisk} \cup
    {[EmptyDisk EXCEPT ![f] = [digest |-> d, size |-> n]] :
        f \in Filenames, d \in Shas, n \in Sizes}

\* fetchMeta() with normalizeMeta(res): the metadata, or a rejection.
fetchMeta(raw) ==
    IF raw.err \/ raw.sha256 = <<>> \/ raw.size_bytes <= 0
    THEN [ok |-> FALSE, meta |-> NoMeta]
    ELSE [ok |-> TRUE, meta |-> [sha256 |-> raw.sha256, sizeBytes |-> raw.size_bytes]]

\* fileSize(filePath)
fileSize(file) == IF file = NoFile THEN NoSize ELSE file.size

\* deleteOtherModels(keepFilename)
deleteOtherModels(files, keep) ==
    [f \in Filenames |-> IF f = keep THEN files[f] ELSE NoFile]

\* downloadModel(meta, filePath) that tests the digest only.
downloadModelDigestOnly(c, meta, got) ==
    LET f == filenameOf(meta.sha256)
        written == [digest |-> got.digest, size |-> got.size]
    IN  IF got.error
        THEN [c |-> [c EXCEPT !.tmp[f] = written], ok |-> FALSE]
        ELSE IF got.digest # meta.sha256
        THEN [c |-> [c EXCEPT !.tmp[f] = NoFile], ok |-> FALSE]
        ELSE [c |-> [c EXCEPT !.tmp[f] = NoFile, !.files[f] = written], ok |-> TRUE]

\* downloadModel(meta, filePath), from the end of the stream on: the bytes
\* are in the .partial file, the digest and the length are compared, the file
\* is renamed.  A stream error leaves the .partial file where it is.
downloadModel(c, meta, got) ==
    LET f == filenameOf(meta.sha256)
        written == [digest |-> got.digest, size |-> got.size]
    IN  IF got.error
        THEN [c |-> [c EXCEPT !.tmp[f] = written], ok |-> FALSE]
        ELSE IF got.digest # meta.sha256
        THEN [c |-> [c EXCEPT !.tmp[f] = NoFile], ok |-> FALSE]
        ELSE IF fileSize(written) # meta.sizeBytes
        THEN [c |-> [c EXCEPT !.tmp[f] = NoFile], ok |-> FALSE]
        ELSE [c |-> [c EXCEPT !.tmp[f] = NoFile, !.files[f] = written], ok |-> TRUE]

\* The operation o settles: the promise in inflight resolves or rejects.
settle(c, o, ok) ==
    [c EXCEPT !.phase[o] = "settled", !.result[o] = IF ok THEN "ok" ELSE "error"]

\* ensureModelCached() without its first line, if (inflight) return inflight.
ensureModelCachedUnshared(c, r) ==
    LET o == c.started + 1
    IN  [c EXCEPT !.inflight = o, !.started = o, !.phase[o] = "meta",
                  !.pendingFinally[o] = TRUE, !.awaits[r] = o,
                  !.last = [@ EXCEPT !.op = "start", !.req = r, !.o = o]]

\* ensureModelCached() that keeps the promise of a failed operation: the
\* request gets the rejected promise of the last operation again.
ensureModelCachedReplaying(c, r) ==
    IF c.started > 0 /\ (c.inflight # 0 \/ c.result[c.started] = "error")
    THEN [c EXCEPT !.awaits[r] = c.started,
                   !.last = [@ EXCEPT !.op = "join", !.req = r, !.o = c.started]]
    ELSE LET o == c.started + 1
         IN  [c EXCEPT !.inflight = o, !.started = o, !.phase[o] = "meta",
                       !.pendingFinally[o] = TRUE, !.awaits[r] = o,
                       !.last = [@ EXCEPT !.op = "start", !.req = r, !.o = o]]

\* ensureModelCached(), up to its first await, called for request r.
ensureModelCached(c, r) ==
    IF c.inflight # 0
    THEN [c EXCEPT !.awaits[r] = c.inflight,
                   !.last = [@ EXCEPT !.op = "join", !.req = r, !.o = c.inflight]]
    ELSE LET o == c.started + 1
         IN  [c EXCEPT !.inflight = o, !.started = o, !.phase[o] = "meta",
                       !.pendingFinally[o] = TRUE, !.awaits[r] = o,
                       !.last = [@ EXCEPT !.op = "start", !.req = r, !.o = o]]

\* What a step of the model cache leaves alone: the hubs, the normalizers,
\* the retry logger.
cacheFrame == <<kind, hubVars, routeStreams, ev, calls, uncaught, opened,
                lastDelay, failures, sincePublish, reentry, lastSeen,
                reconnectTimers, oldListening, delivered,
                markedSuccess, sse, norm, retryLog, logNow, logOut, logHist,
                grpcLog, modelClient, statusRoute>>

\* No hub of this process is in use.
HubsUnused ==
    /\ kind = "route"
    /\ started = FALSE
    /\ latest = Null
    /\ subscribers = <<>>
    /\ staleTimer = Off
    /\ reconnectTimer = Off
    /\ noDataTimer = FALSE
    /\ activeCall = FALSE
    /\ callListening = FALSE
    /\ openStreams = 0
    /\ reconnectAttempt = 0
    /\ gotDataSinceConnect = FALSE
    /\ fatalError = FALSE
    /\ routeStreams = {}
    /\ ev = Event("init", FALSE, "none")
    /\ calls = <<>>
    /\ uncaught = FALSE
    /\ opened = FALSE
    /\ lastDelay = Off
    /\ failures = 0
    /\ sincePublish = Off
    /\ reentry = NoReentry
    /\ lastSeen = [l \in Listeners |-> "none"]
    /\ reconnectTimers = 0
    /\ oldListening = FALSE
    /\ delivered = Null
    /\ markedSuccess = FALSE
    /\ sse = SseIdle
    /\ norm = NormIdle

CacheInit ==
    /\ HubsUnused
    /\ LoggerIdle
    /\ ClientIdle
    /\ StatusRouteIdle
    /\ modelCache \in {CacheLoaded(disk) : disk \in Disks}

\* getRobotModelMeta() or serveRobotModelFile() is called for a new request.
ModelRequest(r) ==
    /\ modelCache.awaits[r] = 0
    /\ \A q \in Requests : q < r => modelCache.awaits[q] # 0
    /\ LET c == ensureModelCached(modelCache, r)
       IN  /\ c.started <= MaxOps
           /\ modelCache' = c
    /\ UNCHANGED cacheFrame

\* GetRobotModelMeta answers operation o; on a cache miss downloadModel
\* opens the GetRobotModel stream.
MetaDone(o, raw) ==
    /\ modelCache.phase[o] = "meta"
    /\ LET res == fetchMeta(raw)
           f == filenameOf(res.meta.sha256)
           c == [modelCache EXCEPT !.meta[o] = res.meta,
                     !.last = [@ EXCEPT !.op = "meta", !.req = 0, !.o = o,
                                        !.meta = res.meta]]
       IN  modelCache' =
             IF ~res.ok THEN settle(c, o, FALSE)
             ELSE IF fileSize(c.files[f]) = res.meta.sizeBytes
             THEN settle([c EXCEPT !.files = deleteOtherModels(@, f),
                                   !.last.op = "hit"], o, TRUE)
             ELSE [c EXCEPT !.phase[o] = "download", !.streams = @ + 1,
                            !.tmp[f] = NoFile]
    /\ UNCHANGED cacheFrame

\* The GetRobotModel stream of operation o ends or fails.
DownloadDone(o, got) ==
    /\ modelCache.phase[o] = "download"
    /\ LET meta == modelCache.meta[o]
           res == downloadModel(modelCache, meta, got)
           c == [res.c EXCEPT !.last = [@ EXCEPT !.op = "downloaded", !.req = 0,
                                          !.o = o, !.meta = meta, !.got = got]]
       IN  modelCache' =
             IF res.ok
             THEN settle([c EXCEPT !.files = deleteOtherModels(@, filenameOf(meta.sha256))],
                         o, TRUE)
             ELSE settle(c, o, FALSE)
    /\ UNCHANGED cacheFrame

\* The caller that started operation o resumes after await inflight:
\* finally { inflight = null }.
CacheFinally(o) ==
    /\ modelCache.pendingFinally[o]
    /\ modelCache.phase[o] = "settled"
    /\ modelCache' = [modelCache EXCEPT !.inflight = 0, !.pendingFinally[o] = FALSE,
                          !.last = [@ EXCEPT !.op = "finally", !.req = 0, !.o = o]]
    /\ UNCHANGED cacheFrame

CacheNext ==
    \/ \E r \in Requests : ModelRequest(r)
    \/ \E o \in Ops, raw \in RawMetas : MetaDone(o, raw)
    \/ \E o \in Ops, got \in Downloads : DownloadDone(o, got)
    \/ \E o \in Ops : CacheFinally(o)

CacheSpec == CacheInit /\ [][CacheNext]_vars

(***************************************************************************)
(* The browser's model client, robotModelClient.ts.  An operation is one   *)
(* run of the async function ensureRobotModelReady() stores in inflight:   *)
(* fetchModelMeta, then prefetchGlb, then cached = meta.                   *)
(***************************************************************************)
\* The operation o settles.
clientSettle(c, o, ok) ==
    [c EXCEPT !.phase[o] = "settled", !.result[o] = IF ok THEN "ok" ELSE "error"]

\* ensureRobotModelReady() without its first line, if (cached) return ...
ensureRobotModelReadyUncached(c, k) ==
    IF c.inflight # 0
    THEN [c EXCEPT !.returned[k] = c.inflight,
                   !.last = [op |-> "join", call |-> k, o |-> c.inflight]]
    ELSE LET o == c.started + 1
         IN  [c EXCEPT !.inflight = o, !.started = o, !.phase[o] = "meta",
                       !.metaFetches = @ + 1, !.returned[k] = o,
                       !.last = [op |-> "start", call |-> k, o |-> o]]

\* ensureRobotModelReady(), called as call k: what it returns, and the
\* request to /api/model/meta its new operation issues at once.
ensureRobotModelReady(c, k) ==
    IF c.cached
    THEN [c EXCEPT !.returned[k] = Resolved,
                   !.last = [op |-> "cached", call |-> k, o |-> 0]]
    ELSE IF c.inflight # 0
    THEN [c EXCEPT !.returned[k] = c.inflight,
                   !.last = [op |-> "join", call |-> k, o |-> c.inflight]]
    ELSE LET o == c.started + 1
         IN  [c EXCEPT !.inflight = o, !.started = o, !.phase[o] = "meta",
                       !.metaFetches = @ + 1, !.returned[k] = o,
                       !.last = [op |-> "start", call |-> k, o |-> o]]

\* What a step of the model client leaves alone.
clientFrame == <<kind, hubVars, routeStreams, ev, calls, uncaught, opened,
                 lastDelay, failures, sincePublish, reentry, lastSeen,
                 reconnectTimers, oldListening, delivered,
                 markedSuccess, sse, norm, retryLog, logNow, logOut, logHist,
                 grpcLog, modelCache, statusRoute>>

ClientInit ==
    /\ HubsUnused
    /\ LoggerIdle
    /\ CacheIdle
    /\ ClientIdle
    /\ StatusRouteIdle

\* A component calls ensureRobotModelReady().
ClientCall(k) ==
    /\ modelClient.returned[k] = NotCalled
    /\ \A j \in ClientCalls : j < k => modelClient.returned[j] # NotCalled
    /\ LET c == ensureRobotModelReady(modelClient, k)
       IN  /\ c.started <= MaxClientOps
           /\ modelClient' = c
    /\ UNCHANGED clientFrame

\* /api/model/meta answers operation o: res.ok and a body, or not; on
\* success prefetchGlb requests meta.url.
ClientMetaAnswered(o, ok) ==
    /\ modelClient.phase[o] = "meta"
    /\ LET c == [modelClient EXCEPT !.last = [op |-> "meta", call |-> 0, o |-> o]]
       IN  modelClient' =
             IF ok THEN [c EXCEPT !.phase[o] = "glb", !.glbFetches = @ + 1]
             ELSE clientSettle(c, o, FALSE)
    /\ UNCHANGED clientFrame

\* The GLB request of operation o answers: on success cached = meta.
ClientGlbAnswered(o, ok) ==
    /\ modelClient.phase[o] = "glb"
    /\ LET c == [modelClient EXCEPT !.last = [op |-> "glb", call |-> 0, o |-> o]]
       IN  modelClient' =
             IF ok THEN clientSettle([c EXCEPT !.cached = TRUE], o, TRUE)
             ELSE clientSettle(c, o, FALSE)
    /\ UNCHANGED clientFrame

\* .finally(() => { inflight = null }) of operation o.
ClientFinally(o) ==
    /\ modelClient.inflight = o
    /\ modelClient.phase[o] = "settled"
    /\ modelClient' = [modelClient EXCEPT !.inflight = 0,
                           !.last = [op |-> "finally", call |-> 0, o |-> o]]
    /\ UNCHANGED clientFrame

ClientNext ==
    \/ \E k \in ClientCalls : ClientCall(k)
    \/ \E o \in ClientOps, ok \in BOOLEAN : ClientMetaAnswered(o, ok)
    \/ \E o \in ClientOps, ok \in BOOLEAN : ClientGlbAnswered(o, ok)
    \/ \E o \in ClientOps : ClientFinally(o)

ClientSpec == ClientInit /\ [][ClientNext]_vars

\* The model on both sides of the HTTP API: the server's cache or the
\* browser's client is followed, from a server whose cache directory is in
\* any of its states.
FetchNext ==
    \/ ClientIdle /\ CacheNext
    \/ modelCache.started = 0 /\ ClientNext

FetchSpec == CacheInit /\ [][FetchNext]_vars

(***************************************************************************)
(* The hub-backed SSE routes: response streams are opened and cancelled    *)
(* while the hub behind them runs.  The hub has no subscribers but the     *)
(* callbacks of the routes, which catch what they throw.                   *)
(***************************************************************************)
SseInit == Init /\ kind \in SseKinds

\* GET: the response stream s is created and started.
SseGet(s, ok) ==
    /\ sse[s].controller = "none"
    /\ LET h == streamStart(H, s, ok)
       IN  /\ Commit(h, Event("sseGet", FALSE, ToString(s)))
           /\ failures' = IF OpenFailed(h) THEN failures + 1 ELSE failures
    /\ UNCHANGED sincePublish

\* The client of response stream s goes away.
SseCancel(s) ==
    /\ sse[s].controller = "readable"
    /\ Commit(streamCancel(H, s), Event("sseCancel", FALSE, ToString(s)))
    /\ UNCHANGED <<failures, sincePublish>>

\* The keep-alive interval of response stream s fires.
SsePing(s) ==
    /\ sse[s].keepAliveTimer
    /\ Commit([H EXCEPT !.sse[s].pushed =
                    IF sse[s].controller = "readable" THEN <<"ping">> ELSE <<>>],
              Event("ssePing", FALSE, ToString(s)))
    /\ UNCHANGED <<failures, sincePublish>>

SseNext ==
    \/ \E s \in Listeners, ok \in OpenOutcomes : SseGet(s, ok)
    \/ \E s \in Listeners : SseCancel(s)
    \/ \E s \in Listeners : SsePing(s)
    \/ \E raw \in RawFrames(kind) : Data(raw, {}, NoReentry)
    \/ \E e \in {"error", "end"} : Disconnect(e, {}, NoReentry)
    \/ StaleFire({}, NoReentry)
    \/ \E ok \in BOOLEAN : ReconnectFire(ok)
    \/ NoDataFire
    \/ \E d \in AdvanceSteps : Advance(d)

SseSpec == SseInit /\ [][SseNext]_vars

(***************************************************************************)
(* The per-client status route, GET /api/status/stream over                *)
(* openUiStatusStream(): one request, its upstream call and its response   *)
(* stream.  controller: "readable", "closed" (controller.close() was       *)
(* called) or "cancelled" (the client went away); enqueue and close throw  *)
(* on a stream that is not readable, and every call site catches that.     *)
(***************************************************************************)
\* close() of openUiStatusStream without its closed flag.
closeUnguarded(r) ==
    [r EXCEPT !.closed = TRUE, !.callCancels = @ + 1, !.clientCloses = @ + 1]

\* close() of openUiStatusStream: call.cancel(); client.close(), once.
close(r) ==
    IF r.closed THEN r
    ELSE [r EXCEPT !.closed = TRUE, !.callCancels = @ + 1, !.clientCloses = @ + 1]

\* try { controller.enqueue(encoder.encode(event)) } catch {}
enqueue(r, event) ==
    IF r.controller = "readable" THEN [r EXCEPT !.sent = Append(@, event)] ELSE r

\* try { controller.close() } catch {}
controllerClose(r) ==
    IF r.controller = "readable" THEN [r EXCEPT !.controller = "closed"] ELSE r

\* onDisconnect of the route, the listener of 'error' and 'end'.
routeOnDisconnect(r) ==
    IF r.cancelled THEN r
    ELSE controllerClose(enqueue(close([r EXCEPT !.keepAliveTimer = FALSE]),
                                 "clear"))

\* cancel() of the response stream
cancel(r) ==
    close([r EXCEPT !.cancelled = TRUE, !.keepAliveTimer = FALSE,
                    !.controller = "cancelled"])

\* What a step of the status route leaves alone.
statusRouteFrame == <<kind, hubVars, routeStreams, ev, calls, uncaught, opened,
                      lastDelay, failures, sincePublish, reentry, lastSeen,
                      reconnectTimers, oldListening, delivered, markedSuccess, sse,
                      norm, retryLog, logNow, logOut, logHist, grpcLog,
                      modelCache, modelClient>>

\* The GET handler: openUiStatusStream() and start(controller) of the
\* response stream; when openUiStatusStream throws the answer is a 503 and
\* nothing is left behind.
StatusGet(ok) ==
    /\ statusRoute.controller = "none"
    /\ statusRoute.last = "load"
    /\ statusRoute' =
          IF ok
          THEN [statusRoute EXCEPT !.controller = "readable", !.sent = <<"retry">>,
                                   !.keepAliveTimer = TRUE, !.last = "get"]
          ELSE [statusRoute EXCEPT !.last = "503"]
    /\ UNCHANGED statusRouteFrame

\* The upstream call emits 'data'; accepted: normalizeUiStatusUpdate returns
\* (it throws otherwise, inside the try).
StatusData(accepted) ==
    /\ statusRoute.controller # "none"
    /\ Len(statusRoute.sent) < MaxSseEvents
    /\ statusRoute' = [(IF accepted THEN enqueue(statusRoute, "status")
                        ELSE statusRoute) EXCEPT !.last = "data"]
    /\ UNCHANGED statusRouteFrame

\* The upstream call emits 'error' or 'end': the listener of
\* openUiStatusStream (close) runs first, then onDisconnect of the route.
StatusDisconnect(e) ==
    /\ statusRoute.controller # "none"
    /\ statusRoute.disconnects < MaxDisconnects
    /\ statusRoute' =
          [routeOnDisconnect(close(statusRoute)) EXCEPT
              !.disconnects = @ + 1, !.last = e,
              !.first = IF @ = "none" THEN "upstream" ELSE @]
    /\ UNCHANGED statusRouteFrame

\* The client goes away: the response stream is cancelled.  It can be while
\* the stream is readable or closed with chunks still queued.
StatusCancel ==
    /\ statusRoute.controller \in {"readable", "closed"}
    /\ statusRoute' =
          [cancel(statusRoute) EXCEPT
              !.last = "cancel", !.first = IF @ = "none" THEN "cancel" ELSE @]
    /\ UNCHANGED statusRouteFrame

\* The keep-alive interval fires.
StatusPing ==
    /\ statusRoute.keepAliveTimer
    /\ Len(statusRoute.sent) < MaxSseEvents
    /\ statusRoute' = [enqueue(statusRoute, "ping") EXCEPT !.last = "ping"]
    /\ UNCHANGED statusRouteFrame

StatusRouteNext ==
    \/ \E ok \in BOOLEAN : StatusGet(ok)
    \/ \E accepted \in BOOLEAN : StatusData(accepted)
    \/ \E e \in {"error", "end"} : StatusDisconnect(e)
    \/ StatusCancel
    \/ StatusPing

StatusRouteSpec == ClientInit /\ [][StatusRouteNext]_vars

(***************************************************************************)
(* Properties.                                                             *)
(***************************************************************************)
\* The listeners invoked with value v by the handler of the last step.
InvokedWith(v) == {calls[i][1] : i \in {j \in 1..Len(calls) : calls[j][2] = v}}

Invoked == {calls[i][1] : i \in 1..Len(calls)}

\* The last step handled a failure: stream error/end, or a failed open.
FailureStep == ev.op \in {"error", "end"} \/ (opened /\ ~activeCall /\ kind \in HubKinds)

\* The delay the tiers ask for after k consecutive failures.
TierDelay(k) ==
    IF k <= 5 THEN grpcReconnectMs
    ELSE IF k <= 10 THEN TIER2_DELAY_MS
    ELSE TIER3_DELAY_MS

\* C1: once the staleness window has elapsed after the last valid publish with
\* no newer valid frame, the latest-value cell is null, in every hub.
C1_NoStaleCarryForward ==
    (kind \in HubKinds /\ sincePublish # Off /\ sincePublish > StaleMs(kind))
        => latest = Null

\* C2: right after the active stream emitted error or end, the latest value is
\* null, every registered subscriber was invoked with null, and a reconnect
\* timer is pending.
C2_DisconnectPublishesNull ==
    ev.op \in {"error", "end"}
        => /\ latest = Null
           /\ Registered \subseteq InvokedWith(Null)
           /\ reconnectTimer # Off

\* C3: for every topic at most one upstream stream is open at any time,
\* however many consumers are attached.
C3_SingleUpstreamStream ==
    openStreams + Cardinality(routeStreams) <= 1

\* C4: a listener that throws during a publish neither keeps the other
\* registered listeners from being invoked nor disturbs the hub: after a valid
\* frame the stale timer is armed and the hub is not Fatal, after a disconnect
\* the reconnect is scheduled.
C4_SubscriberFaultIsolated ==
    /\ (ev.op = "data" /\ ev.result = "snap")
          => /\ Registered \subseteq Invoked
             /\ HasStaleTimer(kind) => staleTimer = StaleMs(kind)
             /\ ~fatalError
    /\ ev.op \in {"error", "end", "staleFire"} => Registered \subseteq Invoked
    /\ ev.op \in {"error", "end"} => reconnectTimer # Off

\* C5: in every hub the reconnect delay armed after k consecutive failures
\* without a data frame is the base delay for k in 1..5, 60000 ms for k in
\* 6..10 and 300000 ms for k >= 11.
C5_TieredReconnectDelay ==
    (FailureStep /\ reconnectTimer # Off) => reconnectTimer = TierDelay(failures)

C7_FatalIsTerminal ==
    [][ fatalError => /\ fatalError'
                      /\ ~opened'
                      /\ reconnectTimer' = Off
                      /\ ~activeCall' ]_vars

\* C7 witness: subscribe is called on the Fatal hub after the stale window
\* of the last published frame has long elapsed.
C7_Witness ==
    /\ fatalError
    /\ ev.op = "subscribe"
    /\ sincePublish = SinceCap

\* C8: in the step in which the floor-topology hub detects a contract
\* violation every registered subscriber is invoked with null and the stream
\* is released; from then on the latest value is null and no listener is
\* invoked with a non-null value.
C8_FatalPublishesNull ==
    /\ [](ev.op = "data" /\ ev.result = "thrown"
            => /\ fatalError
               /\ latest = Null
               /\ Registered \subseteq InvokedWith(Null)
               /\ ~activeCall /\ ~callListening)
    /\ [][ fatalError => /\ latest' = Null
                         /\ \A i \in 1..Len(calls') : calls'[i][2] = Null ]_vars

\* C9: whenever the floor-topology hub handles a data frame in which some
\* polyline declares a frame_id other than base_footprint, it becomes Fatal.
C9_WrongFrameIsFatal ==
    (kind = "topology" /\ ev.op = "data" /\ ev.wrongFrame) => fatalError

\* C10: the floor-topology hub becomes Fatal only in a step that handles a
\* data frame containing a polyline whose frame_id is not base_footprint.
C10_FatalOnlyByWrongFrame ==
    [][ (~fatalError /\ fatalError') => (ev'.op = "data" /\ ev'.wrongFrame) ]_vars

\* C11: a data frame the normalizer rejects publishes nothing: the latest
\* value is what it was before the frame and no listener is invoked.
C11_RejectedFramePublishesNothing ==
    [][ (ev'.op = "data" /\ ev'.result = "rejected")
            => (latest' = latest /\ calls' = <<>> /\ ~uncaught') ]_vars

\* C11 witness: a frame was rejected while a snapshot was held and a listener
\* was registered.
C11_Witness ==
    /\ ev.op = "data" /\ ev.result = "rejected"
    /\ latest.tag = "snap"
    /\ subscribers # <<>>

\* The values of the required numeric fields of the record of a call.
RequiredNumerics(c) ==
    CASE c.fn = "normalizeStatusUpdate" ->
            {c.raw.timestamp_unix_ms, c.raw.cpu_percent}
      [] c.fn = "normalizeLidarUpdate" ->
            {c.raw.timestamp_unix_ms, c.raw.angle_increment}
      [] c.fn = "normalizeRobotStateUpdate" -> {c.raw.timestamp_unix_ms}
      [] c.fn = "normalizeMapUpdate" ->
            {c.raw.timestamp_unix_ms, c.raw.resolution_m_per_px}
      [] c.fn = "normalizeFloorTopologyUpdate" -> {c.raw.timestamp_unix_ms}
      [] OTHER -> {}

\* The value is missing, null, not finite, or not of a numeric type.
InvalidNumeric(v) ==
    \/ v.t \in {"undefined", "null", "nan", "infinity", "boolean", "array"}
    \/ v.t = "string" /\ v.s \notin DOMAIN DecimalValue

\* C12: every normalizer rejects a record one of whose required numeric
\* fields is missing, null, not finite or of a non-numeric type (a boolean,
\* an empty string, an array).
C12_RequiredNumericValidated ==
    (norm.called /\ \E v \in RequiredNumerics(norm) : InvalidNumeric(v))
        => norm.out = Rejected

\* The last message of the list that carries the id.
LastWithId(values, id) ==
    LET I == {i \in 1..Len(values) : values[i].id = Str(id)}
    IN  IF I = {} THEN 0 ELSE CHOOSE i \in I : \A j \in I : j <= i

CallsTo(l) == SelectSeq(calls, LAMBDA c : c[1] = l)

\* C14: subscribe(cb) invokes cb exactly once with the current snapshot if and
\* only if the latest-value cell is non-null; when it is null cb is not
\* invoked by subscribe, and the next valid frame then invokes cb exactly once
\* with that frame's snapshot.
C14_SubscribeDeliversCurrentThenNext ==
    [][/\ ev'.op = "subscribe"
          => \A l \in Listeners :
                ev'.result = ToString(l)
                   => calls' = IF latest # Null
                               THEN <<<<l, latest, latest>>>>
                               ELSE <<>>
       /\ (latest = Null /\ ev'.op = "data" /\ ev'.result = "snap")
          => \A l \in Registered :
                (\E i \in 1..Len(subscribers') : subscribers'[i] = l)
                   => /\ Len(CallsTo(l)') = 1
                      /\ CallsTo(l)'[1][2] = latest'
                      /\ latest' # Null]_vars

\* C15: once the detach function of a callback has returned, the hub never
\* invokes that callback again: a publish invokes only callbacks that are
\* registered when it runs (or the callback being subscribed), and when a
\* callback calls a detach function during a publish, the remainder of that
\* publish does not invoke the detached callback.
C15_NoCallbackAfterDetach ==
    [][/\ \A i \in 1..Len(calls') :
            \/ calls'[i][1] \in Registered
            \/ ev'.op = "subscribe" /\ ev'.result = ToString(calls'[i][1])
       /\ reentry' # NoReentry
            => \A i \in 1..Len(calls'), j \in 1..Len(calls') :
                  (i < j /\ calls'[i][1] = reentry'[1])
                     => calls'[j][1] # reentry'[2]]_vars

\* A callback detached another one, registered after it, during a publish:
\* the detached callback was not invoked.
C15_Witness ==
    /\ reentry # NoReentry
    /\ reentry[1] # reentry[2]
    /\ reentry[1] \in Invoked
    /\ reentry[2] \notin Invoked
    /\ reentry[2] \notin Registered

\* C16: a publish first sets the latest-value cell and then invokes every
\* currently registered subscriber, in registration order, each with that
\* same value; getSnapshot() inside a callback reads the value the callback
\* was called with.  Stated on the handlers that make exactly one publish: the
\* stale timer and a valid frame.
C16_PublishSetsThenInvokesAllInOrder ==
    [][(\/ ev'.op = "staleFire"
        \/ ev'.op = "data" /\ ev'.result = "snap" /\ kind # "topology")
          => /\ reentry' = NoReentry
                   => [i \in 1..Len(calls') |-> calls'[i][1]] = subscribers
             /\ \A i \in 1..Len(calls') :
                   /\ calls'[i][2] = latest'
                   /\ calls'[i][3] = calls'[i][2]]_vars

\* C17: getSnapshot() and subscribe() never throw to their caller, in any hub
\* state, also when starting the connection loop fails or when the callback
\* invoked with the current snapshot throws.
C17_AccessorsNeverThrow ==
    ev.op \in {"getSnapshot", "subscribe"} => ~uncaught

\* The values listener l was invoked with by the handler of the last step.
ValuesTo(l) == [i \in 1..Len(CallsTo(l)) |-> CallsTo(l)[i][2]]

\* C18: for each gap that follows a published snapshot (staleness expiry,
\* disconnect, or both) every subscriber is invoked with null exactly once
\* before the next snapshot: a subscriber whose last snapshot was followed by
\* a stale expiry or a disconnect receives null before it receives anything
\* else, and a subscriber never receives two null notifications in a row.
C18_OneNullPerGap ==
    [][\A l \in Listeners :
          /\ (lastSeen[l] = "owed" /\ ev'.op # "subscribe" /\ ValuesTo(l)' # <<>>)
                => ValuesTo(l)'[1] = Null
          /\ LET got == (IF lastSeen[l] = "null" THEN <<Null>> ELSE <<>>)
                             \o ValuesTo(l)'
             IN  \A i \in 1..(Len(got) - 1) :
                    ~(got[i] = Null /\ got[i + 1] = Null)]_vars

\* C19: at most one reconnect timer is pending per hub at any time, and a
\* request to schedule a reconnect while one is pending creates no second
\* timer and does not increment the attempt counter.  No handler reaches
\* scheduleReconnect() with a timer pending, so the request is applied to
\* every reachable state that has one.
C19_SingleReconnectTimer ==
    /\ reconnectTimers <= 1
    /\ (reconnectTimers = 1) <=> (reconnectTimer # Off)
    /\ reconnectTimer # Off
          => LET h == scheduleReconnect(H)
             IN  /\ h.reconnectTimers = 1
                 /\ h.reconnectTimer = reconnectTimer
                 /\ h.reconnectAttempt = reconnectAttempt

\* A reconnect timer is pending after at least one counted attempt.
C19_Witness ==
    /\ reconnectTimer # Off
    /\ reconnectTimers = 1
    /\ HasAttemptCounter(kind)
    /\ reconnectAttempt >= 2

\* The last step lost the connection of a hub that is not Fatal: the stream
\* ended or failed, or a stream could not be opened.
LostConnection == kind \in HubKinds /\ FailureStep /\ ~fatalError

\* C20: whenever a hub that is not Fatal loses its connection, the reconnect
\* delay eventually expires and a new connection attempt follows; if the lost
\* connection had delivered at least one data frame, the delay armed is the
\* base reconnect delay.
C20_ReconnectFollowsLoss ==
    /\ [](LostConnection
            => <>(reconnectTimer = 0 /\ <>(ev.op = "reconnectFire" /\ opened)))
    /\ [][(ev'.op \in {"error", "end"} /\ gotDataSinceConnect /\ ~fatalError')
            => reconnectTimer' = grpcReconnectMs]_vars

\* C21: no hub opens an upstream connection before the first getSnapshot or
\* subscribe call made on it; the first such call starts the connection loop,
\* and later calls never start it again.
C21_LazyStartOnce ==
    /\ []((kind \in HubKinds /\ ~started)
             => (openStreams = 0 /\ ~activeCall /\ ~opened
                   /\ reconnectTimer = Off))
    /\ [][/\ (started' /\ ~started) => ev'.op \in {"getSnapshot", "subscribe"}
          /\ ev'.op \in {"getSnapshot", "subscribe"}
                => (started' /\ (opened' <=> ~started))]_vars

\* A consumer call on a started hub that is disconnected and waiting for its
\* reconnect timer: it did not try to open a stream.
C21_Witness ==
    /\ ev.op \in {"getSnapshot", "subscribe"}
    /\ started /\ ~opened
    /\ ~activeCall /\ reconnectTimer # Off

\* C22: the staleness timer of a hub always expires one stale-duration after
\* the most recent valid publish: every valid frame cancels the previous timer
\* and arms a new one, so a snapshot is never cleared as stale less than one
\* stale-duration after it was published.
C22_StaleTimerFollowsLastPublish ==
    /\ []((kind \in HubKinds /\ staleTimer # Off)
             => (sincePublish # Off /\ staleTimer + sincePublish = StaleMs(kind)))
    /\ []((kind \in HubKinds /\ ev.op = "data" /\ ev.result = "snap")
             => staleTimer = StaleMs(kind))
    /\ []((kind \in HubKinds /\ ev.op = "staleFire")
             => sincePublish >= StaleMs(kind))

\* The number of snapshots listener l received in the last step.
SnapshotsTo(l) == Len(SelectSeq(ValuesTo(l), LAMBDA v : v # Null))

\* C23: after a hub has handled error/end (or a fatal failure) for a
\* connection, no later data, error or end event of that old stream changes
\* hub state or reaches subscribers: the hub's listeners are off the stream it
\* drops, whenever no stream is active none is listened to, and one upstream
\* frame is delivered to a subscriber at most once.
C23_OldStreamEventsIgnored ==
    /\ [](~oldListening /\ (~activeCall => ~callListening))
    /\ [][ev'.op \in {"orphanData", "orphanError", "orphanEnd"}
            => /\ calls' = <<>>
               /\ ~uncaught'
               /\ <<started, latest, subscribers, staleTimer, reconnectTimer,
                     noDataTimer, activeCall, callListening, reconnectAttempt,
                     gotDataSinceConnect, fatalError>>'
                  = <<started, latest, subscribers, staleTimer, reconnectTimer,
                      noDataTimer, activeCall, callListening, reconnectAttempt,
                      gotDataSinceConnect, fatalError>>]_vars
    /\ [](ev.op = "data" => \A l \in Listeners : SnapshotsTo(l) <= 1)

\* The 'end' of a stream whose 'error' the hub has handled arrives while
\* subscribers are registered and the reconnect timer is pending.
C23_Witness ==
    /\ ev.op = "orphanEnd"
    /\ subscribers # <<>>
    /\ reconnectTimer # Off
    /\ latest = Null

\* The window the claim gives after the lines written so far.
ClaimedWindow == IF logHist.lines >= 2 THEN FIVE_MIN_MS ELSE ONE_MIN_MS

\* C24: the failure logger writes the first failure after its creation or
\* after a marked success at once; later failures are suppressed, counted and
\* not written, until 1 minute has passed since that first written line, and
\* after the second written line until 5 minutes have passed since the last
\* written line.
C24_WideningSuppressionWindow ==
    [][logOut'.op = "logFailure"
         => /\ logOut'.line.wrote
                 <=> (\/ logHist.lines = 0
                      \/ logNow - retryLog.lastLoggedAt >= ClaimedWindow)
            /\ ~logOut'.line.wrote
                 => (retryLog'.suppressed = retryLog.suppressed + 1
                       /\ retryLog'.lastLoggedAt = retryLog.lastLoggedAt)
            /\ logOut'.line.wrote => retryLog'.lastLoggedAt = logNow]_vars

\* A failure was suppressed three minutes after the second written line.
C24_Witness ==
    /\ logOut.op = "logFailure"
    /\ ~logOut.line.wrote
    /\ logHist.lines = 2
    /\ logNow - retryLog.lastLoggedAt >= 3 * ONE_MIN_MS

\* C25: no suppressed failure goes unreported: the number suppressed since
\* the last written line is reported in the next written failure line or in a
\* report made when success is marked.
C25_SuppressedAlwaysReported ==
    [][/\ (logOut'.op = "logFailure" /\ logOut'.line.wrote)
            => logOut'.line.hidden = logHist.unreported
       /\ (logOut'.op = "markSuccess" /\ logHist.unreported > 0)
            => (logOut'.line.wrote /\ logOut'.line.hidden = logHist.unreported)]_vars

\* Operations of the model cache that have started and not settled.
InProgress(c) == {o \in Ops : c.phase[o] \in {"meta", "download"}}

\* C26: at most one metadata-fetch-and-download operation of the server's
\* model cache is in progress at any time, and a request that arrives while
\* one is in progress awaits that same operation (and so receives its
\* outcome) and starts neither an operation nor a download.
C26_SingleFlightModelCache ==
    /\ [](Cardinality(InProgress(modelCache)) <= 1)
    /\ [][(modelCache'.last.op \in {"start", "join"} /\ InProgress(modelCache) # {})
            => /\ modelCache'.started = modelCache.started
               /\ modelCache'.streams = modelCache.streams
               /\ modelCache'.awaits[modelCache'.last.req] \in InProgress(modelCache)
               /\ InProgress(modelCache') = InProgress(modelCache)]_vars

\* Two requests have received the outcome of one download.
C26_Witness ==
    \E r1, r2 \in Requests, o \in Ops :
        /\ r1 # r2
        /\ modelCache.awaits[r1] = o
        /\ modelCache.awaits[r2] = o
        /\ modelCache.result[o] = "ok"
        /\ modelCache.streams = 1
        /\ modelCache.last.op = "downloaded"

\* C27: a downloaded file reaches the final cache path only if its SHA-256
\* digest and its byte length both equal the declared values; on either
\* mismatch the partial file is deleted, the download changes nothing at the
\* final path, and the operation ends in an error.
C27_VerifiedBeforeRename ==
    [][modelCache'.last.op = "downloaded" =>
        LET meta == modelCache'.last.meta
            got == modelCache'.last.got
            f == filenameOf(meta.sha256)
            o == modelCache'.last.o
            match == got.digest = meta.sha256 /\ got.size = meta.sizeBytes
        IN  /\ modelCache'.files[f] # modelCache.files[f]
                => (~got.error /\ match /\ modelCache'.files[f].digest = meta.sha256
                                        /\ modelCache'.files[f].size = meta.sizeBytes)
            /\ (~got.error /\ ~match)
                => /\ modelCache'.tmp[f] = NoFile
                   /\ modelCache'.files = modelCache.files
                   /\ modelCache'.result[o] = "error"]_vars

\* A download of the declared digest and another length has been refused.
C27_Witness ==
    /\ modelCache.last.op = "downloaded"
    /\ ~modelCache.last.got.error
    /\ modelCache.last.got.digest = modelCache.last.meta.sha256
    /\ modelCache.last.got.size # modelCache.last.meta.sizeBytes
    /\ modelCache.result[modelCache.last.o] = "error"
    /\ modelCache.tmp[filenameOf(modelCache.last.meta.sha256)] = NoFile

\* Operations of the model client that have started and not settled.
ClientInProgress(c) == {o \in ClientOps : c.phase[o] \in {"meta", "glb"}}

\* C28: ensureRobotModelReady fetches the meta and the GLB at most once per
\* page load on success: a call made while an operation is in flight returns
\* that operation's promise and issues no request, at most one operation is
\* in flight, and once an operation has succeeded no request is issued any
\* more and every call returns the cached result.
C28_ClientFetchesOnce ==
    /\ [](Cardinality(ClientInProgress(modelClient)) <= 1)
    /\ [](Cardinality({o \in ClientOps : modelClient.result[o] = "ok"}) <= 1)
    /\ [][(modelClient'.last.op \in {"start", "join", "cached"}
             /\ ClientInProgress(modelClient) # {})
            => /\ modelClient'.returned[modelClient'.last.call] \in ClientInProgress(modelClient)
               /\ modelClient'.metaFetches = modelClient.metaFetches
               /\ modelClient'.glbFetches = modelClient.glbFetches]_vars
    /\ [][(\E o \in ClientOps : modelClient.result[o] = "ok")
            => /\ modelClient'.metaFetches = modelClient.metaFetches
               /\ modelClient'.glbFetches = modelClient.glbFetches
               /\ modelClient'.last.op \in {"start", "join", "cached"}
                    => modelClient'.returned[modelClient'.last.call] = Resolved]_vars

\* After a failed and a successful operation, one call that shared the
\* successful one and a later call answered from the cache.
C28_Witness ==
    \E j, k \in ClientCalls, o \in ClientOps :
        /\ j # k
        /\ modelClient.returned[j] = o
        /\ modelClient.returned[k] = o
        /\ modelClient.result[o] = "ok"
        /\ modelClient.last.op = "cached"
        /\ \E p \in ClientOps : modelClient.result[p] = "error"

\* Rotations whose heading is known from their construction, as
\* <<qx, qy, qz, qw, yaw>>: turns about the vertical axis by 0, 45, 90, 135,
\* 180 and -90 degrees, the same turn as q and as -q, a roll, a pitch, and
\* turns about the vertical axis composed with a roll (qz * qx).
KnownHeadings ==
    {<<0, 0, 0, 10000, 0>>,
     <<0, 0, 3827, 9239, 7854>>,
     <<0, 0, 7071, 7071, HalfPiE4>>,
     <<0, 0, -7071, -7071, HalfPiE4>>,
     <<0, 0, -7071, 7071, -HalfPiE4>>,
     <<0, 0, 9239, 3827, 23562>>,
     <<0, 0, 10000, 0, PiE4>>,
     <<7071, 0, 0, 7071, 0>>,
     <<0, 3827, 0, 9239, 0>>,
     <<5000, 5000, 5000, 5000, HalfPiE4>>,
     <<7071, -7071, 0, 0, -HalfPiE4>>}

\* Rounding the components to 1e-4 moves the angle by a few units of 1e-4 rad.
YawTolerance == 5

\* C29: yawFromQuaternionZUp returns the heading of the rotation, atan2 of
\* 2(qw qz + qx qy) and 1 - 2(qy^2 + qz^2): exactly 0 for the identity
\* quaternion, pi/2 within tolerance for a quarter turn about the vertical
\* axis, and the known heading within tolerance for the other rotations whose
\* heading is known.
C29_YawFromQuaternion ==
    (norm.fn = "yawFromQuaternionZUp" /\ norm.called) =>
        /\ norm.raw = [qx |-> 0, qy |-> 0, qz |-> 0, qw |-> 10000] => norm.out = 0
        /\ \A h \in KnownHeadings :
              norm.raw = [qx |-> h[1], qy |-> h[2], qz |-> h[3], qw |-> h[4]]
                  => Abs(norm.out - h[5]) <= YawTolerance
        /\ norm.out >= -PiE4 /\ norm.out <= PiE4

\* The heading of a quarter turn about the vertical axis has been computed.
C29_Witness ==
    /\ norm.fn = "yawFromQuaternionZUp"
    /\ norm.called
    /\ norm.raw = [qx |-> 0, qy |-> 0, qz |-> 7071, qw |-> 7071]
    /\ Abs(norm.out - HalfPiE4) <= YawTolerance

\* The snapshots (non-null values) listener l was invoked with in the step.
SnapshotCallsTo(cs, l) == SelectSeq(cs, LAMBDA c : c[1] = l /\ c[2] # Null)

\* C30 as stated: the non-null values a subscriber receives are, in order, a
\* subsequence of the frames the upstream stream delivered while it was
\* subscribed: a listener gets a snapshot only in the step that handles a
\* valid frame, only if it was subscribed when the frame arrived, only that
\* frame and only once.
C30_SubsequenceOfDelivered ==
    [][\A l \in Listeners :
         LET got == SnapshotCallsTo(calls', l)
         IN  /\ Len(got) <= 1
             /\ Len(got) = 1 =>
                   /\ ev'.op = "data"
                   /\ l \in Registered
                   /\ got[1][2] = delivered']_vars

\* C30, amended: as above, except that subscribe(cb) hands cb, once, the
\* snapshot current at that moment (the last valid frame delivered and not
\* cleared since); every other snapshot a listener gets is the frame handled
\* in that step, once, and only if it was subscribed when the frame arrived.
C30_InOrderWithReplay ==
    [][\A l \in Listeners :
         LET got == SnapshotCallsTo(calls', l)
         IN  /\ Len(got) <= 1
             /\ Len(got) = 1 =>
                   \/ /\ ev'.op = "data"
                      /\ l \in Registered
                      /\ got[1][2] = delivered'
                   \/ /\ ev'.op = "subscribe"
                      /\ ev'.result = ToString(l)
                      /\ latest # Null
                      /\ got[1][2] = latest]_vars

\* A valid frame has just reached both subscribed listeners.
C30_Witness ==
    /\ ev.op = "data"
    /\ delivered # Null
    /\ Len(calls) = 2
    /\ calls[1][1] # calls[2][1]
    /\ calls[1][2] = delivered
    /\ calls[2][2] = delivered
    /\ \A l \in Listeners : lastSeen[l] = "snap"

\* The elements the normalizers are to leave out: a point with a missing or
\* non-finite coordinate, a metric without a string id or a finite hz, a wheel
\* angle without a joint name.
Missing(v) == v.t \in {"undefined", "null", "nan", "infinity"}
MalformedPoint(pt) == Missing(pt.x) \/ Missing(pt.y)
MalformedMetric(m) == m.id.t # "string" \/ Missing(m.hz)
MalformedAngle(wa) == wa.joint_name.t # "string"

\* C31: a malformed element of a nested list is left out of the normalized
\* list and the record is still accepted: the normalized polyline has one
\* point per well-formed raw point (a polyline with an invalid id is left out
\* whole), rates has an entry exactly for the ids of well-formed metrics, and
\* wheelAnglesRad has no entry but for the joint names of the raw angles.
C31_MalformedElementOmitted ==
    (norm.called /\ [fn |-> norm.fn, raw |-> norm.raw] \in NestedCalls
                 /\ ~InvalidNumeric(norm.raw.timestamp_unix_ms)) =>
      /\ norm.out.tag = "snap"
      /\ (norm.fn = "normalizeFloorTopologyUpdate") =>
            LET p == norm.raw.polylines[1]
                good == {i \in DOMAIN p.points : ~MalformedPoint(p.points[i])}
            IN  IF p.id.n < 0 THEN Len(norm.out.polylines) = 0
                ELSE /\ Len(norm.out.polylines) = 1
                     /\ Len(norm.out.polylines[1].points) = Cardinality(good)
      /\ (norm.fn = "normalizeStatusUpdate") =>
            \A id \in RateIds :
                (norm.out.rates[id] # Undef) <=>
                    (\E i \in DOMAIN norm.raw.rates :
                        /\ ~MalformedMetric(norm.raw.rates[i])
                        /\ norm.raw.rates[i].id = Str(id))
      /\ (norm.fn = "normalizeRobotStateUpdate") =>
            \A name \in JointNames :
                (norm.out.wheelAnglesRad[name] # Undef) =>
                    (\E i \in DOMAIN norm.raw.wheel_angles :
                        /\ ~MalformedAngle(norm.raw.wheel_angles[i])
                        /\ norm.raw.wheel_angles[i].joint_name = Str(name))

\* C32: a failed model fetch or download is not cached, in the server's cache
\* and in the browser's client alike.  The operation that rejects stores
\* nothing (no model file, no cached metadata); a caller waiting on it stays
\* on it and so gets its error; once the operation's finally has run the slot
\* inflight no longer holds it; and a request made when the slot is empty
\* (and, in the client, nothing is cached) starts a new operation that
\* fetches the metadata again.
C32_FailureNotCached ==
    [][/\ \A o \in Ops :
            /\ (modelCache.result[o] # "error" /\ modelCache'.result[o] = "error")
                  => modelCache'.files = modelCache.files
            /\ (modelCache'.phase[o] = "settled" /\ ~modelCache'.pendingFinally[o])
                  => modelCache'.inflight # o
       /\ \A r \in Requests :
            /\ modelCache.awaits[r] # 0 => modelCache'.awaits[r] = modelCache.awaits[r]
            /\ (modelCache.awaits[r] = 0 /\ modelCache'.awaits[r] # 0
                  /\ modelCache.inflight = 0)
                  => /\ modelCache'.awaits[r] = modelCache.started + 1
                     /\ modelCache'.inflight = modelCache'.awaits[r]
                     /\ modelCache'.phase[modelCache'.awaits[r]] = "meta"
       /\ \A o \in ClientOps :
            /\ (modelClient.result[o] # "error" /\ modelClient'.result[o] = "error")
                  => modelClient'.cached = modelClient.cached
            /\ (modelClient.inflight = o /\ modelClient.phase[o] = "settled"
                  /\ modelClient'.last.op = "finally")
                  => modelClient'.inflight = 0
       /\ \A k \in ClientCalls :
            /\ modelClient.returned[k] # NotCalled
                  => modelClient'.returned[k] = modelClient.returned[k]
            /\ (modelClient.returned[k] = NotCalled
                  /\ modelClient'.returned[k] # NotCalled
                  /\ modelClient.inflight = 0 /\ ~modelClient.cached)
                  => /\ modelClient'.returned[k] = modelClient.started + 1
                     /\ modelClient'.phase[modelClient'.returned[k]] = "meta"
                     /\ modelClient'.metaFetches = modelClient.metaFetches + 1
      ]_vars

\* C32 witness: two requests waited on the first operation of the cache, it
\* failed and its finally ran, and the next request waits on a second
\* operation that is fetching the metadata.
C32_Witness ==
    /\ modelCache.result[1] = "error"
    /\ modelCache.awaits[1] = 1
    /\ modelCache.awaits[2] = 1
    /\ modelCache.awaits[3] = 2
    /\ modelCache.inflight = 2
    /\ modelCache.phase[2] = "meta"

\* C33: in every hub an open upstream stream and a pending reconnect timer
\* never coexist: while the hub holds a stream (activeCall) or any stream it
\* opened is still open, no reconnect timer is pending; a handler that opens
\* a stream leaves no timer behind; and a handler that arms the timer leaves
\* no stream reference.
C33_StreamXorReconnectTimer ==
    [][/\ (activeCall' \/ openStreams' > 0)
            => (reconnectTimer' = Off /\ reconnectTimers' = 0)
       /\ (~activeCall /\ activeCall')
            => (reconnectTimer' = Off /\ reconnectTimers' = 0)
       /\ (reconnectTimer = Off /\ reconnectTimer' # Off)
            => (~activeCall' /\ ~callListening')
      ]_vars

\* C33 witness: the reconnect timer was pending, it expired, and the handler
\* opened a stream.
C33_Witness ==
    /\ ev.op = "reconnectFire"
    /\ activeCall
    /\ openStreams = 1
    /\ reconnectTimer = Off
    /\ failures = 1

\* C34: a hub that has been started and is not Fatal has, after every handled
\* event, an open upstream stream or a pending reconnect timer.
C34_StreamOrReconnectTimer ==
    (kind \in HubKinds /\ started /\ ~fatalError)
        => (activeCall \/ reconnectTimer # Off)

\* C35: a frame the normalizer rejects does not re-arm the staleness timer,
\* so that with rejected frames arriving after a valid one the held value is
\* still due to be cleared one stale-duration after that valid publish: the
\* rejected frame leaves the timer as it was, and after it the timer of a
\* held value is pending and expires one stale-duration after the publish.
C35_RejectedFrameKeepsStaleDeadline ==
    /\ [][(ev'.op = "data" /\ ev'.result = "rejected")
              => staleTimer' = staleTimer]_vars
    /\ []((kind \in HubKinds /\ ev.op = "data" /\ ev.result = "rejected"
              /\ latest # Null)
              => (staleTimer # Off /\ sincePublish # Off
                    /\ staleTimer + sincePublish = StaleMs(kind)))

\* C36: the first data frame received on a connection resets the
\* reconnect-attempt counter to 0 and, in the lidar and floor-topology hubs,
\* marks success on the shared logger, whether or not the normalizer then
\* rejects the frame; a later frame of the connection marks nothing.
C36_FirstFrameResetsAttempts ==
    [][(ev'.op = "data" /\ activeCall /\ callListening)
          => /\ reconnectAttempt' = 0
             /\ HasAttemptCounter(kind) => gotDataSinceConnect'
             /\ markedSuccess' = (UsesRetryLogger(kind) /\ ~gotDataSinceConnect)
      ]_vars

\* C36 witness: after at least one failed connection the lidar or topology
\* hub got the first frame of a new connection, the normalizer rejected it,
\* and the counter is 0 and success was marked.
C36_Witness ==
    /\ ev.op = "data" /\ ev.result = "rejected"
    /\ UsesRetryLogger(kind)
    /\ lastDelay # Off
    /\ markedSuccess
    /\ reconnectAttempt = 0
    /\ gotDataSinceConnect

\* C37: the subscribers of a hub form a set keyed by callback identity: a
\* callback is registered at most once however often it is subscribed; a
\* publish (of a valid frame, or of null by the stale timer) invokes every
\* callback that is registered before and after it exactly once with the
\* published value; and a detach function removes its callback entirely.
C37_SubscribersAreASet ==
    /\ [](\A i, j \in 1..Len(subscribers) :
              i # j => subscribers[i] # subscribers[j])
    /\ [][\A l \in Registered :
            /\ (ev'.op = "subscribe" /\ ev'.result = ToString(l) /\ ~uncaught')
                  => subscribers' = subscribers
            /\ (ev'.op = "data" /\ ev'.result = "snap"
                  /\ \E i \in 1..Len(subscribers') : subscribers'[i] = l)
                  => Cardinality({i \in 1..Len(calls') :
                        calls'[i][1] = l /\ calls'[i][2] = delivered'}) = 1
            /\ (ev'.op = "staleFire"
                  /\ \E i \in 1..Len(subscribers') : subscribers'[i] = l)
                  => Cardinality({i \in 1..Len(calls') :
                        calls'[i][1] = l /\ calls'[i][2] = Null}) = 1
            /\ (ev'.op = "unsubscribe"
                  /\ ~\E i \in 1..Len(subscribers') : subscribers'[i] = l)
                  => /\ Len(subscribers') = Len(subscribers) - 1
                     /\ \A x \in Registered \ {l} :
                            \E i \in 1..Len(subscribers') : subscribers'[i] = x
      ]_vars

\* C38: the failure logger is one instance shared by the lidar and the
\* floor-topology hub: both modules hold the same logger; a success marked by
\* either hub leaves the logger of both with no last line, a window of one
\* minute and nothing suppressed; and so the first failure after a success
\* marked by the other hub is written at once with hidden=0, also for a hub
\* that was failing when the success was marked.
C38_SharedFailureLogger ==
    /\ [](\A a, b \in LogHubs :
              grpcLog.ref[a] # 0 /\ grpcLog.ref[a] = grpcLog.ref[b])
    /\ [][/\ logOut'.op = "markSuccess"
              => \A h \in LogHubs :
                    /\ LoggerOf(h)'.lastLoggedAt = Off
                    /\ LoggerOf(h)'.nextWindowMs = ONE_MIN_MS
                    /\ LoggerOf(h)'.suppressed = 0
                    /\ LoggerOf(h)'.windowStart = logNow
          /\ (/\ logOut'.op = "logFailure"
              /\ logHist.marker \in LogHubs \ {logOut'.hub}
              /\ logHist.lines = 0 /\ logHist.unreported = 0)
              => /\ logOut'.line.wrote
                 /\ logOut'.line.hidden = 0
                 /\ logOut'.line.overMs = 0
         ]_vars

\* C38 witness: the lidar hub had a failure written and others suppressed,
\* the topology hub marked success while the window was open, and the next
\* failure of the lidar hub has just been written with hidden=0.
C38_Witness ==
    /\ logOut.op = "logFailure" /\ logOut.hub = "lidar"
    /\ logOut.line.wrote /\ logOut.line.hidden = 0
    /\ logHist.marker = "topology"
    /\ "lidar" \in logHist.failingAtMark
    /\ logHist.lines = 1
    /\ logNow < ONE_MIN_MS

\* The number of clear events enqueued for the client of the status route.
Clears == Cardinality({i \in 1..Len(statusRoute.sent) : statusRoute.sent[i] = "clear"})

\* C39: in the per-client status route, when the upstream call errors or ends
\* before the client cancels, exactly one clear event is enqueued, it is the
\* last event, and the response stream is closed; when the client cancelled
\* first no clear is enqueued; and call.cancel() and client.close() have run
\* exactly once as soon as any of error, end and cancel has occurred, and
\* never more.
C39_StatusRouteClosesOnce ==
    /\ statusRoute.first = "upstream"
          => /\ Clears = 1
             /\ statusRoute.sent[Len(statusRoute.sent)] = "clear"
             /\ statusRoute.controller \in {"closed", "cancelled"}
             /\ ~statusRoute.keepAliveTimer
    /\ statusRoute.first \in {"cancel", "none"} => Clears = 0
    /\ statusRoute.first # "none"
          => (statusRoute.callCancels = 1 /\ statusRoute.clientCloses = 1)
    /\ statusRoute.first = "none"
          => (statusRoute.callCancels = 0 /\ statusRoute.clientCloses = 0)

\* C39 witness: after two status events the upstream call errored and ended,
\* and then the client went away with the clear still queued.
C39_Witness ==
    /\ statusRoute.first = "upstream"
    /\ statusRoute.last = "cancel"
    /\ statusRoute.disconnects = 2
    /\ statusRoute.sent = <<"retry", "status", "status", "clear">>
    /\ statusRoute.callCancels = 1

\* The number of times the callback of response stream s is registered.
Subscriptions(s) == Cardinality({i \in 1..Len(subscribers) : subscribers[i] = s})

\* The events the callback of stream s owes for the invocations cs.
RECURSIVE EventsFor(_, _)
EventsFor(cs, s) ==
    IF cs = <<>> THEN <<>>
    ELSE (IF Head(cs)[1] = s
          THEN <<IF Head(cs)[2] = Null THEN "clear" ELSE kind>>
          ELSE <<>>) \o EventsFor(Tail(cs), s)

\* C40: each hub-backed SSE route holds exactly one hub subscription per
\* open response stream and none for a stream that is not open, so the hub's
\* subscribers are exactly the callbacks of the open streams; a cancelled
\* stream has no keep-alive timer and no detach function left; every hub push
\* reaches every open stream as one event, the topic event for a snapshot and
\* clear for null; and nothing else is enqueued but the retry line at the
\* start and the keep-alive pings.
C40_OneSubscriptionPerOpenStream ==
    /\ [](\A s \in Listeners :
            /\ sse[s].controller = "readable"
                  => (Subscriptions(s) = 1 /\ sse[s].keepAliveTimer
                        /\ sse[s].unsubscribe)
            /\ sse[s].controller # "readable"
                  => (Subscriptions(s) = 0 /\ ~sse[s].keepAliveTimer
                        /\ ~sse[s].unsubscribe))
    /\ [][\A s \in Listeners :
            /\ (ev'.op \notin {"sseGet", "ssePing"} /\ sse'[s].controller = "readable")
                  => sse'[s].pushed = EventsFor(calls', s)
            /\ (ev'.op = "data" /\ ev'.result = "snap"
                  /\ sse'[s].controller = "readable")
                  => sse'[s].pushed = <<kind>>
            /\ (ev'.op = "staleFire" /\ sse'[s].controller = "readable")
                  => sse'[s].pushed = <<"clear">>
            /\ (ev'.op = "sseGet" /\ ev'.result = ToString(s))
                  => sse'[s].pushed =
                        IF latest = Null THEN <<"retry">> ELSE <<"retry", kind>>
            /\ sse'[s].controller # "readable" => sse'[s].pushed = <<>>
         ]_vars

\* C40 witness: two response streams were opened, the first was cancelled,
\* and a valid frame has just been forwarded to the second one alone.
C40_Witness ==
    /\ sse[1].controller = "cancelled"
    /\ sse[2].controller = "readable"
    /\ subscribers = <<2>>
    /\ ev.op = "data" /\ ev.result = "snap"
    /\ sse[2].pushed = <<kind>>
    /\ sse[1].pushed = <<>>

====
